---- MODULE Spec2Model ----
(***************************************************************************)
(* KeyHero: the audio clock (WebAudioEngine), the hit judge and stats      *)
(* accumulator (RhythmScoring, GameState), the keyboard input handler, the *)
(* session loop (GameLoop) and the screen flow that starts a session       *)
(* (KeyHeroGame.startGameplay).                                            *)
(*                                                                         *)
(* Times are integers in milliseconds: 0.060 s is 60, 2.0 s is 2000.       *)
(***************************************************************************)
EXTENDS Integers, Sequences, FiniteSets, TLC

(***************************************************************************)
(* Bounds of the model.                                                    *)
(***************************************************************************)
\* largest reading of the audio context's clock that is explored
MaxNow == 2400
\* largest reading of a new context's clock when start() samples it
MaxCtxStart == 60
\* largest number of resume() calls awaiting the device at once
MaxAwait == 2

\* the device clock is followed in fine steps up to this reading, and in
\* coarse steps beyond it
FineUntil == 180
\* largest song time given to evaluateHit when it is called on its own
MaxSongTime == 260
\* largest number of judgments folded by processHit called on its own
MaxFolds == 10

\* amounts by which the device clock advances between two program steps
Steps == {60, 2000}
\* those of them taken only up to FineUntil
FineSteps == {60}
\* values given to setOffset()
Offsets == {-60, 0, 60}
\* values of config.duration (length of the generated track)
Durations == {120, 60000}

Max(a, b) == IF a >= b THEN a ELSE b

Abs(a) == IF a >= 0 THEN a ELSE 0 - a

VARIABLES
  \* ---- WebAudioEngine ----
  audioContext,        \* "null", or the state of the context: "running",
                       \* "suspending" (suspend() requested, not yet in effect),
                       \* "suspended"
  now,                 \* audioContext.currentTime of the present context
  duration,            \* config.duration
  sourceEnded,         \* the source node has played to its end
  songStartTime,
  calibrationOffset,
  isPlaying,
  isPaused,
  pauseStartTime,
  totalPausedTime,
  resumeAwaiting,      \* resume() calls awaiting audioContext.resume() of the
                       \* present context
  resumeStale,         \* resume() calls awaiting a context that stop() closed
  \* ---- history of reads, kept to state the clock properties ----
  lastRead,            \* last getSongTime() read of this playback taken
                       \* while playing and not paused; -1 if none
  comparable,          \* since that read: offset not raised and no resume()
                       \* overlapped another clock call
  raceOpen,            \* a resume() was overlapped by another clock call and
                       \* some continuation is still to run
  pauseReading,        \* getSongTime() at the instant of the last pause()
  pauseOffset          \* calibrationOffset at that instant

clockVars == <<audioContext, now, duration, sourceEnded, songStartTime,
               calibrationOffset, isPlaying, isPaused, pauseStartTime,
               totalPausedTime, resumeAwaiting, resumeStale>>

histVars == <<lastRead, comparable, raceOpen, pauseReading, pauseOffset>>

VARIABLES
  \* ---- the chart (shared array of notes) ----
  chart,               \* sequence of [lane, hitTime], ascending in hitTime
  hit,                 \* hit[i]: the hit flag of note i
  \* ---- GameState ----
  gameState,           \* [perfectCount, goodCount, missCount, maxCombo,
                       \*  currentCombo, score]
  \* ---- KeyboardInput ----
  heldKeys,
  \* ---- KeyHeroGame ----
  currentScreen,       \* "songSelect" (the menus), "loading", "playing"
  loadStep,            \* position inside startGameplay: "none", "file"
                       \* (awaiting the audio file), "sfx" (awaiting the
                       \* sound effects after the fallback restart)
  gameLoop,            \* "null" or "made"
  endScreenVisible,
  \* ---- GameLoop ----
  isRunning,
  animationFrameId,    \* "null" or "set"
  rafPending,          \* an animation-frame callback is scheduled
  feedbackTimeout,     \* "null" or "set"
  timeoutPending,      \* a feedback-timeout callback is scheduled
  currentFeedback,
  chartDuration,
  lastComboMilestone,
  \* ---- Canvas2DRenderer ----
  canvasTime,          \* song time of the last render pass; -1 if none
  \* ---- history of the session, kept to state its properties ----
  judgments,           \* judgments[i]: processHit calls made for note i in
                       \* this session
  ended                \* endGame has run in this session

gameVars == <<chart, hit, gameState, heldKeys, currentScreen, loadStep,
              gameLoop, endScreenVisible, isRunning, animationFrameId,
              rafPending, feedbackTimeout, timeoutPending, currentFeedback,
              chartDuration, lastComboMilestone, canvasTime, judgments,
              ended>>

VARIABLES
  \* ---- the keyboard and the sound effects ----
  pressed,             \* the keys that are physically down
  comboChimes          \* calls of sfxEngine.playComboChime made so far

inputVars == <<pressed, comboChimes>>

VARIABLES
  \* ---- RhythmScoring and GameState called on their own ----
  evalNote,            \* the note last given to evaluateHit
  evalTime,            \* the song time last given to evaluateHit
  evalResult,          \* the HitResult it returned
  folded               \* the ratings given to processHit, in order

scoringVars == <<evalNote, evalTime, evalResult, folded>>

VARIABLES
  \* ---- MultiInput called on its own ----
  multiHeldKeys,       \* MultiInput.heldKeys
  activeTouches,       \* MultiInput.activeTouches: touchId -> lane
  activeLanes          \* MultiInput.activeLanes

multiVars == <<multiHeldKeys, activeTouches, activeLanes>>

VARIABLES
  \* ---- the feedback timer of one GameLoop, and the window's timers ----
  timerQueue,          \* the setTimeout callbacks not yet run or cleared:
                       \* [id, due]
  feedbackTimeoutId,   \* this.feedbackTimeout as a timer id, 0 for null
  timersMade,          \* setTimeout calls made so far (ids are 1, 2, ...)
  wallClock,           \* the window's time in ms
  lastShownAt          \* the wallClock of the latest showFeedback that has
                       \* not been reset, -1 when there is none

timerVars == <<timerQueue, feedbackTimeoutId, timersMade, wallClock,
               lastShownAt>>

\* the components that are also called on their own
unitVars == <<scoringVars, multiVars, timerVars>>

VARIABLES
  \* ---- calls that fail ----
  sourceReleased,      \* stop() has stopped and dropped the source node of
                       \* a context that it did not close
  stopThrew,           \* the last stop() call threw
  startOutcome         \* the last attempt to start a session: "none",
                       \* "awaiting" (the clock started, the caller waits),
                       \* "resolved" (loop() has run), "rejected" (the
                       \* failure reached the caller)

callVars == <<sourceReleased, stopThrew, startOutcome>>

vars == <<clockVars, histVars, gameVars, inputVars, unitVars, callVars>>

(***************************************************************************)
(* WebAudioEngine                                                          *)
(***************************************************************************)
getSongTime_noclamp ==
  IF audioContext = "null" \/ ~isPlaying
  THEN 0
  ELSE now - songStartTime - totalPausedTime - calibrationOffset

getSongTime ==
  IF audioContext = "null" \/ ~isPlaying
  THEN 0
  ELSE Max(0, now - songStartTime - totalPausedTime - calibrationOffset)

StopFields_keepsPauseTotal ==
  /\ audioContext' = "null"
  /\ isPlaying' = FALSE
  /\ isPaused' = FALSE
  /\ totalPausedTime' = totalPausedTime
  /\ songStartTime' = 0
  /\ pauseStartTime' = 0

\* the fields stop() assigns at its end
StopFields ==
  /\ audioContext' = "null"
  /\ isPlaying' = FALSE
  /\ isPaused' = FALSE
  /\ totalPausedTime' = 0
  /\ songStartTime' = 0
  /\ pauseStartTime' = 0

\* resume() calls still awaiting the closed context stay in flight
StopAwaiting ==
  /\ resumeStale' = resumeStale + resumeAwaiting
  /\ resumeAwaiting' = 0
  /\ raceOpen' = (raceOpen \/ resumeAwaiting > 0)

EngineStop ==
  /\ StopFields
  /\ StopAwaiting
  /\ now' = 0
  /\ sourceEnded' = FALSE
  /\ lastRead' = -1
  /\ comparable' = FALSE
  /\ UNCHANGED <<duration, calibrationOffset, pauseReading, pauseOffset>>

EngineStart_keepsPauseTotal(t0) ==
  /\ StopAwaiting
  /\ audioContext' = "running"
  /\ now' = t0
  /\ sourceEnded' = FALSE
  /\ songStartTime' = t0
  /\ totalPausedTime' = totalPausedTime
  /\ isPaused' = FALSE
  /\ isPlaying' = TRUE
  /\ pauseStartTime' = 0
  /\ lastRead' = -1
  /\ comparable' = FALSE
  /\ UNCHANGED <<duration, calibrationOffset, pauseReading, pauseOffset>>

\* start(): stop(), then a new context whose clock reads t0 when sampled
EngineStart(t0) ==
  /\ StopAwaiting
  /\ audioContext' = "running"
  /\ now' = t0
  /\ sourceEnded' = FALSE
  /\ songStartTime' = t0
  /\ totalPausedTime' = 0
  /\ isPaused' = FALSE
  /\ isPlaying' = TRUE
  /\ pauseStartTime' = 0
  /\ lastRead' = -1
  /\ comparable' = FALSE
  /\ UNCHANGED <<duration, calibrationOffset, pauseReading, pauseOffset>>

SetOffset(o) ==
  /\ calibrationOffset' = o
  /\ comparable' = (comparable /\ o <= calibrationOffset)
  /\ UNCHANGED <<audioContext, now, duration, sourceEnded, songStartTime,
                 isPlaying, isPaused, pauseStartTime, totalPausedTime,
                 resumeAwaiting, resumeStale, lastRead, raceOpen,
                 pauseReading, pauseOffset>>

Pause_noInstant ==
  IF audioContext = "null" \/ ~isPlaying \/ isPaused
  THEN UNCHANGED <<clockVars, histVars>>
  ELSE /\ pauseStartTime' = pauseStartTime
       /\ audioContext' = "suspending"
       /\ isPaused' = TRUE
       /\ pauseReading' = getSongTime
       /\ pauseOffset' = calibrationOffset
       /\ UNCHANGED <<now, duration, sourceEnded, songStartTime,
                      calibrationOffset, isPlaying, totalPausedTime,
                      resumeAwaiting, resumeStale, lastRead, comparable,
                      raceOpen>>

Pause ==
  IF audioContext = "null" \/ ~isPlaying \/ isPaused
  THEN UNCHANGED <<clockVars, histVars>>
  ELSE /\ pauseStartTime' = now
       /\ audioContext' = "suspending"
       /\ isPaused' = TRUE
       /\ pauseReading' = getSongTime
       /\ pauseOffset' = calibrationOffset
       /\ UNCHANGED <<now, duration, sourceEnded, songStartTime,
                      calibrationOffset, isPlaying, totalPausedTime,
                      resumeAwaiting, resumeStale, lastRead, comparable,
                      raceOpen>>

ResumeCall_unguarded ==
  IF audioContext = "null"
  THEN UNCHANGED <<clockVars, histVars>>
  ELSE /\ resumeAwaiting + resumeStale < MaxAwait
       /\ audioContext' = "running"
       /\ resumeAwaiting' = resumeAwaiting + 1
       /\ raceOpen' = (raceOpen \/ resumeAwaiting > 0)
       /\ comparable' = (comparable /\ resumeAwaiting = 0)
       /\ UNCHANGED <<now, duration, sourceEnded, songStartTime,
                      calibrationOffset, isPlaying, isPaused, pauseStartTime,
                      totalPausedTime, resumeStale, lastRead, pauseReading,
                      pauseOffset>>

\* resume() up to its await
ResumeCall ==
  IF audioContext = "null" \/ ~isPaused
  THEN UNCHANGED <<clockVars, histVars>>
  ELSE /\ resumeAwaiting + resumeStale < MaxAwait
       /\ audioContext' = "running"
       /\ resumeAwaiting' = resumeAwaiting + 1
       /\ raceOpen' = (raceOpen \/ resumeAwaiting > 0)
       /\ comparable' = (comparable /\ resumeAwaiting = 0)
       /\ UNCHANGED <<now, duration, sourceEnded, songStartTime,
                      calibrationOffset, isPlaying, isPaused, pauseStartTime,
                      totalPausedTime, resumeStale, lastRead, pauseReading,
                      pauseOffset>>

ResumeBody_fromOrigin ==
  IF audioContext = "null"
  THEN UNCHANGED <<totalPausedTime, isPaused>>
  ELSE /\ totalPausedTime' = totalPausedTime + (now - songStartTime)
       /\ isPaused' = FALSE

\* the statements of resume() after its await
ResumeBody ==
  IF audioContext = "null"
  THEN \* this.audioContext.currentTime throws; nothing is assigned
       UNCHANGED <<totalPausedTime, isPaused>>
  ELSE /\ totalPausedTime' = totalPausedTime + (now - pauseStartTime)
       /\ isPaused' = FALSE

ResumeContinue ==
  /\ resumeAwaiting > 0
  /\ resumeAwaiting' = resumeAwaiting - 1
  /\ ResumeBody
  /\ raceOpen' = (raceOpen /\ resumeAwaiting + resumeStale > 1)
  /\ UNCHANGED <<audioContext, now, duration, sourceEnded, songStartTime,
                 calibrationOffset, isPlaying, pauseStartTime, resumeStale,
                 lastRead, comparable, pauseReading, pauseOffset>>

\* the continuation of a resume() whose context was closed meanwhile
StaleResumeContinue ==
  /\ resumeStale > 0
  /\ resumeStale' = resumeStale - 1
  /\ ResumeBody
  /\ raceOpen' = (raceOpen /\ resumeAwaiting + resumeStale > 1)
  /\ comparable' = FALSE
  /\ UNCHANGED <<audioContext, now, duration, sourceEnded, songStartTime,
                 calibrationOffset, isPlaying, pauseStartTime, resumeAwaiting,
                 lastRead, pauseReading, pauseOffset>>

\* sourceNode.onended, when the track has played for config.duration
TrackEnded ==
  /\ audioContext # "null"
  /\ ~sourceEnded
  /\ now - songStartTime >= duration
  /\ sourceEnded' = TRUE
  /\ isPlaying' = (isPlaying /\ ~(isPlaying /\ ~isPaused))
  /\ UNCHANGED <<audioContext, now, duration, songStartTime,
                 calibrationOffset, isPaused, pauseStartTime,
                 totalPausedTime, resumeAwaiting, resumeStale>>
  /\ UNCHANGED histVars

(***************************************************************************)
(* The audio device: its clock advances while the context runs, and until  *)
(* a requested suspension takes effect.                                    *)
(***************************************************************************)
Advance(d) ==
  /\ audioContext \in {"running", "suspending"}
  /\ now + d <= MaxNow
  /\ d \in FineSteps => now + d <= FineUntil
  /\ now' = now + d
  /\ UNCHANGED <<audioContext, duration, sourceEnded, songStartTime,
                 calibrationOffset, isPlaying, isPaused, pauseStartTime,
                 totalPausedTime, resumeAwaiting, resumeStale>>
  /\ UNCHANGED histVars

SuspendTakesEffect ==
  /\ audioContext = "suspending"
  /\ audioContext' = "suspended"
  /\ UNCHANGED <<now, duration, sourceEnded, songStartTime,
                 calibrationOffset, isPlaying, isPaused, pauseStartTime,
                 totalPausedTime, resumeAwaiting, resumeStale>>
  /\ UNCHANGED histVars

\* a caller reads the song time
ReadSongTime ==
  /\ isPlaying /\ ~isPaused
  /\ lastRead' = getSongTime
  /\ comparable' = ~raceOpen
  /\ UNCHANGED <<clockVars, raceOpen, pauseReading, pauseOffset>>

ClockInit ==
  /\ audioContext = "null"
  /\ now = 0
  /\ duration \in Durations
  /\ sourceEnded = FALSE
  /\ songStartTime = 0
  /\ calibrationOffset = 0
  /\ isPlaying = FALSE
  /\ isPaused = FALSE
  /\ pauseStartTime = 0
  /\ totalPausedTime = 0
  /\ resumeAwaiting = 0
  /\ resumeStale = 0
  /\ lastRead = -1
  /\ comparable = FALSE
  /\ raceOpen = FALSE
  /\ pauseReading = 0
  /\ pauseOffset = 0

(***************************************************************************)
(* RhythmScoring and GameState                                             *)
(***************************************************************************)
PerfectWindow == 60
GoodWindow == 120
GoodScore == 50
PerfectScore_asGood == GoodScore
PerfectScore == 100

evaluateHit_exclusive(note, songTime) ==
  LET timeDiff == Abs(note.hitTime - songTime)
  IN  IF timeDiff < PerfectWindow
      THEN [rating |-> "PERFECT", scoreDelta |-> PerfectScore,
            timeDiff |-> timeDiff]
      ELSE IF timeDiff < GoodWindow
      THEN [rating |-> "GOOD", scoreDelta |-> GoodScore,
            timeDiff |-> timeDiff]
      ELSE [rating |-> "MISS", scoreDelta |-> 0, timeDiff |-> timeDiff]

evaluateHit(note, songTime) ==
  LET timeDiff == Abs(note.hitTime - songTime)
  IN  IF timeDiff <= PerfectWindow
      THEN [rating |-> "PERFECT", scoreDelta |-> PerfectScore,
            timeDiff |-> timeDiff]
      ELSE IF timeDiff <= GoodWindow
      THEN [rating |-> "GOOD", scoreDelta |-> GoodScore,
            timeDiff |-> timeDiff]
      ELSE [rating |-> "MISS", scoreDelta |-> 0, timeDiff |-> timeDiff]

NewGameState ==
  [perfectCount |-> 0, goodCount |-> 0, missCount |-> 0, maxCombo |-> 0,
   currentCombo |-> 0, score |-> 0]

processHit_keepsMaxCombo(gs, result) ==
  IF result.rating = "MISS"
  THEN [gs EXCEPT !.missCount = @ + 1, !.currentCombo = 0]
  ELSE LET counted ==
             IF result.rating = "PERFECT"
             THEN [gs EXCEPT !.perfectCount = @ + 1]
             ELSE [gs EXCEPT !.goodCount = @ + 1]
           combo == gs.currentCombo + 1
       IN  [counted EXCEPT !.currentCombo = combo,
                           !.score = @ + result.scoreDelta]

processHit(gs, result) ==
  IF result.rating = "MISS"
  THEN [gs EXCEPT !.missCount = @ + 1, !.currentCombo = 0]
  ELSE LET counted ==
             IF result.rating = "PERFECT"
             THEN [gs EXCEPT !.perfectCount = @ + 1]
             ELSE [gs EXCEPT !.goodCount = @ + 1]
           combo == gs.currentCombo + 1
       IN  [counted EXCEPT !.currentCombo = combo,
                           !.maxCombo = Max(@, combo),
                           !.score = @ + result.scoreDelta]

\* getAccuracy(): the quotient weightedScore / maxScore * 100 kept as the
\* fraction num / den; 0 when nothing was judged
getAccuracy(gs) ==
  LET total == gs.perfectCount + gs.goodCount + gs.missCount
      weightedScore == gs.perfectCount * 100 + gs.goodCount * 50
      maxScore == total * 100
  IN  IF total = 0
      THEN [num |-> 0, den |-> 1]
      ELSE [num |-> weightedScore * 100, den |-> maxScore]

getGrade_exclusive(gs) ==
  LET accuracy == getAccuracy(gs)
  IN  IF accuracy.num > 95 * accuracy.den THEN "S"
      ELSE IF accuracy.num > 90 * accuracy.den THEN "A"
      ELSE IF accuracy.num > 80 * accuracy.den THEN "B"
      ELSE IF accuracy.num > 70 * accuracy.den THEN "C"
      ELSE IF accuracy.num > 60 * accuracy.den THEN "D"
      ELSE "F"

\* getGrade(): the first breakpoint that accuracy reaches
getGrade(gs) ==
  LET accuracy == getAccuracy(gs)
  IN  IF accuracy.num >= 95 * accuracy.den THEN "S"
      ELSE IF accuracy.num >= 90 * accuracy.den THEN "A"
      ELSE IF accuracy.num >= 80 * accuracy.den THEN "B"
      ELSE IF accuracy.num >= 70 * accuracy.den THEN "C"
      ELSE IF accuracy.num >= 60 * accuracy.den THEN "D"
      ELSE "F"

(***************************************************************************)
(* KeyboardInput                                                           *)
(***************************************************************************)
Keys == {"a", "s"}

keyToLane == [k \in {"a", "s", "d", "f"} |->
                CASE k = "a" -> 0 [] k = "s" -> 1 [] k = "d" -> 2
                  [] k = "f" -> 3]

\* -1 stands for undefined
getLane(key) == IF key \in DOMAIN keyToLane THEN keyToLane[key] ELSE -1

(***************************************************************************)
(* GameLoop                                                                *)
(***************************************************************************)
TravelTime == 2000
MissThreshold == 120
HitWindow == 120

Notes == 1..Len(chart)

\* chartDuration as the constructor computes it
ChartDurationOf(c) == c[Len(c)].hitTime + TravelTime

Judged_leavesFlag(st, i, result) ==
  [hit |-> st.hit,
   gameState |-> processHit(st.gameState, result),
   judgments |-> [st.judgments EXCEPT ![i] = @ + 1],
   feedback |-> result.rating]

\* the part of the session a judgment changes
Judged(st, i, result) ==
  [hit |-> [st.hit EXCEPT ![i] = TRUE],
   gameState |-> processHit(st.gameState, result),
   judgments |-> [st.judgments EXCEPT ![i] = @ + 1],
   feedback |-> result.rating]

\* checkMissedNotes: the test made on each note
IsMissed_ignoresHit(st, i, songTime) ==
  chart[i].hitTime - songTime < 0 - MissThreshold

IsMissed_anyPast(st, i, songTime) ==
  /\ ~st.hit[i]
  /\ chart[i].hitTime - songTime < 0

IsMissed(st, i, songTime) ==
  /\ ~st.hit[i]
  /\ chart[i].hitTime - songTime < 0 - MissThreshold

\* checkMissedNotes: forEach over the chart, from note i on
RECURSIVE checkMissedFrom(_, _, _)
checkMissedFrom(i, songTime, st) ==
  IF i > Len(chart)
  THEN st
  ELSE IF IsMissed(st, i, songTime)
       THEN checkMissedFrom(i + 1, songTime,
                            Judged(st, i, evaluateHit(chart[i], songTime)))
       ELSE checkMissedFrom(i + 1, songTime, st)

SessionPart ==
  [hit |-> hit, gameState |-> gameState, judgments |-> judgments,
   feedback |-> "none"]

InLaneWindow_anyLane(i, lane, songTime) ==
  /\ ~hit[i]
  /\ chart[i].hitTime >= songTime - HitWindow
  /\ chart[i].hitTime <= songTime + HitWindow

\* findNearestNote: the filter
InLaneWindow(i, lane, songTime) ==
  /\ chart[i].lane = lane
  /\ ~hit[i]
  /\ chart[i].hitTime >= songTime - HitWindow
  /\ chart[i].hitTime <= songTime + HitWindow

findNearestNote_first(lane, songTime) ==
  LET notesInLane == {i \in Notes : InLaneWindow(i, lane, songTime)}
  IN  IF notesInLane = {}
      THEN 0
      ELSE CHOOSE i \in notesInLane : \A j \in notesInLane : i <= j

\* findNearestNote: first note of the stable sort by |hitTime - songTime|;
\* 0 stands for null
findNearestNote(lane, songTime) ==
  LET notesInLane == {i \in Notes : InLaneWindow(i, lane, songTime)}
  IN  IF notesInLane = {}
      THEN 0
      ELSE CHOOSE i \in notesInLane :
             \A j \in notesInLane :
               \/ Abs(chart[i].hitTime - songTime)
                    < Abs(chart[j].hitTime - songTime)
               \/ /\ Abs(chart[i].hitTime - songTime)
                       = Abs(chart[j].hitTime - songTime)
                  /\ i <= j

Milestones == {10, 20, 50, 100}

\* checkComboMilestone: the value of lastComboMilestone it leaves
checkComboMilestone(combo, last) ==
  LET reached == IF combo \in Milestones /\ last < combo THEN combo ELSE last
  IN  IF combo = 0 THEN 0 ELSE reached

\* checkComboMilestone: whether it calls sfxEngine.playComboChime
playsComboChime(combo, last) == combo \in Milestones /\ last < combo

\* showFeedback
ShowFeedback(text) ==
  /\ currentFeedback' = text
  /\ feedbackTimeout' = "set"
  /\ timeoutPending' = TRUE

\* the callback showFeedback schedules
FeedbackTimeoutFires ==
  /\ timeoutPending
  /\ timeoutPending' = FALSE
  /\ currentFeedback' = ""
  /\ UNCHANGED <<clockVars, histVars, chart, hit, gameState, heldKeys,
                 currentScreen, loadStep, gameLoop, endScreenVisible,
                 isRunning, animationFrameId, rafPending, feedbackTimeout,
                 chartDuration, lastComboMilestone, canvasTime, judgments,
                 ended>>

\* endGame
EndGame ==
  /\ isRunning' = FALSE
  /\ endScreenVisible' = TRUE
  /\ ended' = TRUE

\* loop(): the body run by start() and by each animation-frame callback
LoopBody_endAfterScan ==
  IF ~isRunning
  THEN UNCHANGED <<hit, gameState, endScreenVisible, isRunning,
                   animationFrameId, feedbackTimeout, timeoutPending,
                   currentFeedback, canvasTime, judgments, ended>>
       /\ rafPending' = FALSE
  ELSE LET songTime == getSongTime
           st == checkMissedFrom(1, songTime, SessionPart)
       IN  /\ hit' = st.hit
           /\ gameState' = st.gameState
           /\ judgments' = st.judgments
           /\ IF st.feedback = "none"
              THEN UNCHANGED <<feedbackTimeout, timeoutPending,
                               currentFeedback>>
              ELSE ShowFeedback(st.feedback)
           /\ IF songTime > chartDuration
              THEN /\ EndGame
                   /\ rafPending' = FALSE
                   /\ UNCHANGED <<animationFrameId, canvasTime>>
              ELSE /\ canvasTime' = songTime
                   /\ animationFrameId' = "set"
                   /\ rafPending' = TRUE
                   /\ UNCHANGED <<endScreenVisible, isRunning, ended>>

LoopBody ==
  IF ~isRunning
  THEN UNCHANGED <<hit, gameState, endScreenVisible, isRunning,
                   animationFrameId, feedbackTimeout, timeoutPending,
                   currentFeedback, canvasTime, judgments, ended>>
       /\ rafPending' = FALSE
  ELSE LET songTime == getSongTime
       IN  IF songTime > chartDuration
           THEN /\ EndGame
                /\ rafPending' = FALSE
                /\ UNCHANGED <<hit, gameState, animationFrameId,
                               feedbackTimeout, timeoutPending,
                               currentFeedback, canvasTime, judgments>>
           ELSE LET st == checkMissedFrom(1, songTime, SessionPart)
                IN  /\ canvasTime' = songTime
                    /\ hit' = st.hit
                    /\ gameState' = st.gameState
                    /\ judgments' = st.judgments
                    /\ IF st.feedback = "none"
                       THEN UNCHANGED <<feedbackTimeout, timeoutPending,
                                        currentFeedback>>
                       ELSE ShowFeedback(st.feedback)
                    /\ animationFrameId' = "set"
                    /\ rafPending' = TRUE
                    /\ UNCHANGED <<endScreenVisible, isRunning, ended>>

\* the animation-frame callback
Tick ==
  /\ rafPending
  /\ LoopBody
  /\ UNCHANGED <<clockVars, histVars, chart, heldKeys, currentScreen,
                 loadStep, gameLoop, chartDuration, lastComboMilestone>>

\* handleKeyPress: the guard of its first line
KeyPressAccepted_always == TRUE

KeyPressAccepted == isRunning

handleKeyPress_staleTime(key) ==
  IF ~KeyPressAccepted \/ key \in heldKeys
  THEN UNCHANGED <<hit, gameState, heldKeys, feedbackTimeout,
                   timeoutPending, currentFeedback, lastComboMilestone,
                   judgments, comboChimes>>
  ELSE /\ heldKeys' = heldKeys \cup {key}
       /\ LET lane == getLane(key)
              songTime == canvasTime
              note == IF lane = -1 THEN 0 ELSE findNearestNote(lane, songTime)
          IN  IF note # 0 /\ ~hit[note]
              THEN LET result == evaluateHit(chart[note], songTime)
                       st == Judged(SessionPart, note, result)
                   IN  /\ hit' = st.hit
                       /\ gameState' = st.gameState
                       /\ judgments' = st.judgments
                       /\ ShowFeedback(result.rating)
                       /\ lastComboMilestone' =
                            IF result.rating = "MISS"
                            THEN lastComboMilestone
                            ELSE checkComboMilestone(
                                   st.gameState.currentCombo,
                                   lastComboMilestone)
                       /\ comboChimes' =
                            IF /\ result.rating # "MISS"
                               /\ playsComboChime(st.gameState.currentCombo,
                                                  lastComboMilestone)
                            THEN comboChimes + 1
                            ELSE comboChimes
              ELSE UNCHANGED <<hit, gameState, feedbackTimeout,
                               timeoutPending, currentFeedback,
                               lastComboMilestone, judgments, comboChimes>>

handleKeyPress(key) ==
  IF ~KeyPressAccepted \/ key \in heldKeys
  THEN UNCHANGED <<hit, gameState, heldKeys, feedbackTimeout,
                   timeoutPending, currentFeedback, lastComboMilestone,
                   judgments, comboChimes>>
  ELSE /\ heldKeys' = heldKeys \cup {key}
       /\ LET lane == getLane(key)
              songTime == getSongTime
              note == IF lane = -1 THEN 0 ELSE findNearestNote(lane, songTime)
          IN  IF note # 0 /\ ~hit[note]
              THEN LET result == evaluateHit(chart[note], songTime)
                       st == Judged(SessionPart, note, result)
                   IN  /\ hit' = st.hit
                       /\ gameState' = st.gameState
                       /\ judgments' = st.judgments
                       /\ ShowFeedback(result.rating)
                       /\ lastComboMilestone' =
                            IF result.rating = "MISS"
                            THEN lastComboMilestone
                            ELSE checkComboMilestone(
                                   st.gameState.currentCombo,
                                   lastComboMilestone)
                       /\ comboChimes' =
                            IF /\ result.rating # "MISS"
                               /\ playsComboChime(st.gameState.currentCombo,
                                                  lastComboMilestone)
                            THEN comboChimes + 1
                            ELSE comboChimes
              ELSE UNCHANGED <<hit, gameState, feedbackTimeout,
                               timeoutPending, currentFeedback,
                               lastComboMilestone, judgments, comboChimes>>

handleKeyUp(key) ==
  heldKeys' = heldKeys \ {key}

LoopStop_keepsTimeout ==
  /\ gameLoop = "made"
  /\ isRunning' = FALSE
  /\ EngineStop
  /\ animationFrameId' = "null"
  /\ rafPending' = (rafPending /\ animationFrameId = "null")
  /\ UNCHANGED <<feedbackTimeout, timeoutPending>>
  /\ UNCHANGED <<chart, hit, gameState, heldKeys, currentScreen, loadStep,
                 gameLoop, endScreenVisible, currentFeedback, chartDuration,
                 lastComboMilestone, canvasTime, judgments, ended>>

\* GameLoop.stop
LoopStop ==
  /\ gameLoop = "made"
  /\ isRunning' = FALSE
  /\ EngineStop
  /\ animationFrameId' = "null"
  /\ rafPending' = (rafPending /\ animationFrameId = "null")
  /\ feedbackTimeout' = "null"
  /\ timeoutPending' = (timeoutPending /\ feedbackTimeout = "null")
  /\ UNCHANGED <<chart, hit, gameState, heldKeys, currentScreen, loadStep,
                 gameLoop, endScreenVisible, currentFeedback, chartDuration,
                 lastComboMilestone, canvasTime, judgments, ended>>

\* GameLoop.reset
LoopReset ==
  /\ gameLoop = "made"
  /\ gameState' = NewGameState
  /\ lastComboMilestone' = 0
  /\ currentFeedback' = ""
  /\ feedbackTimeout' = "null"
  /\ timeoutPending' = (timeoutPending /\ feedbackTimeout = "null")
  /\ hit' = [i \in Notes |-> FALSE]
  /\ endScreenVisible' = FALSE
  /\ judgments' = [i \in Notes |-> 0]
  /\ ended' = FALSE
  /\ UNCHANGED <<clockVars, histVars, chart, heldKeys, currentScreen,
                 loadStep, gameLoop, isRunning, animationFrameId, rafPending,
                 chartDuration, canvasTime>>

(***************************************************************************)
(* KeyHeroGame                                                             *)
(***************************************************************************)
ListenedKeys == {"a", "s", "d", "f"}

\* the keydown listener forwards the event to the GameLoop
Forwarded(key) ==
  key \in ListenedKeys /\ currentScreen = "playing" /\ gameLoop = "made"

\* the keydown listener, on the press of a key and on each repeat the
\* keyboard sends while the key stays down
KeyDown(key) ==
  /\ pressed' = pressed \cup {key}
  /\ IF Forwarded(key)
     THEN handleKeyPress(key)
     ELSE UNCHANGED <<hit, gameState, heldKeys, feedbackTimeout,
                      timeoutPending, currentFeedback, lastComboMilestone,
                      judgments, comboChimes>>
  /\ UNCHANGED <<clockVars, histVars, chart, currentScreen, loadStep,
                 gameLoop, endScreenVisible, isRunning, animationFrameId,
                 rafPending, chartDuration, canvasTime, ended>>

\* the keyup listener, on the release of a key
KeyUp(key) ==
  /\ key \in pressed
  /\ pressed' = pressed \ {key}
  /\ UNCHANGED comboChimes
  /\ IF Forwarded(key)
     THEN handleKeyUp(key)
     ELSE UNCHANGED heldKeys
  /\ UNCHANGED <<clockVars, histVars, chart, hit, gameState, currentScreen,
                 loadStep, gameLoop, endScreenVisible, isRunning,
                 animationFrameId, rafPending, feedbackTimeout,
                 timeoutPending, currentFeedback, chartDuration,
                 lastComboMilestone, canvasTime, judgments, ended>>

\* keys that the listeners do not forward
OtherKeys == {"x"}

\* GameLoop.handleKeyPress called by another caller than the listener
HandleKeyPress(key) ==
  /\ gameLoop = "made"
  /\ handleKeyPress(key)
  /\ UNCHANGED pressed
  /\ UNCHANGED <<clockVars, histVars, chart, currentScreen, loadStep,
                 gameLoop, endScreenVisible, isRunning, animationFrameId,
                 rafPending, chartDuration, canvasTime, ended>>

\* GameLoop.handleKeyUp called by another caller than the listener
HandleKeyUp(key) ==
  /\ gameLoop = "made"
  /\ handleKeyUp(key)
  /\ UNCHANGED inputVars
  /\ UNCHANGED <<clockVars, histVars, chart, hit, gameState, currentScreen,
                 loadStep, gameLoop, endScreenVisible, isRunning,
                 animationFrameId, rafPending, feedbackTimeout,
                 timeoutPending, currentFeedback, chartDuration,
                 lastComboMilestone, canvasTime, judgments, ended>>

\* the Menu button of the end screen: showSongSelect
ShowSongSelect ==
  /\ endScreenVisible
  /\ currentScreen' = "songSelect"
  /\ endScreenVisible' = FALSE
  /\ UNCHANGED <<clockVars, histVars, chart, hit, gameState, heldKeys,
                 loadStep, gameLoop, isRunning, animationFrameId, rafPending,
                 feedbackTimeout, timeoutPending, currentFeedback,
                 chartDuration, lastComboMilestone, canvasTime, judgments,
                 ended>>

\* startGameplay up to its first await: the clock is restarted
StartGameplay(t0) ==
  /\ currentScreen = "songSelect"
  /\ currentScreen' = "loading"
  /\ loadStep' = "file"
  /\ EngineStart(t0)
  /\ UNCHANGED <<chart, hit, gameState, heldKeys, gameLoop,
                 endScreenVisible, isRunning, animationFrameId, rafPending,
                 feedbackTimeout, timeoutPending, currentFeedback,
                 chartDuration, lastComboMilestone, canvasTime, judgments,
                 ended>>

\* startGameplay: the audio file failed to load; restart with the
\* generated track
StartGameplayFallback(t0) ==
  /\ currentScreen = "loading"
  /\ loadStep = "file"
  /\ loadStep' = "sfx"
  /\ EngineStart(t0)
  /\ UNCHANGED <<chart, hit, gameState, heldKeys, currentScreen, gameLoop,
                 endScreenVisible, isRunning, animationFrameId, rafPending,
                 feedbackTimeout, timeoutPending, currentFeedback,
                 chartDuration, lastComboMilestone, canvasTime, judgments,
                 ended>>

\* the fields of a new GameLoop, and the hand-made start of its loop
NewLoopFields ==
  /\ gameLoop' = "made"
  /\ chartDuration' = ChartDurationOf(chart)
  /\ lastComboMilestone' = 0

\* the session as startGameplay hands it to the first run of loop(): the
\* stats reset by gameState.reset(), the chart as getChart() returns it
SessionAtStart ==
  [hit |-> hit, gameState |-> NewGameState,
   judgments |-> [i \in Notes |-> 0], feedback |-> "none"]

\* startGameplay after its awaits: reset the stats, make the GameLoop over
\* the selected chart, run loop() once
StartGameplayFinish ==
  /\ currentScreen = "loading"
  /\ currentScreen' = "playing"
  /\ loadStep' = "none"
  /\ NewLoopFields
  /\ LET songTime == getSongTime
     IN  IF songTime > ChartDurationOf(chart)
         THEN /\ isRunning' = FALSE
              /\ endScreenVisible' = TRUE
              /\ ended' = TRUE
              /\ rafPending' = FALSE
              /\ animationFrameId' = "null"
              /\ gameState' = NewGameState
              /\ judgments' = [i \in Notes |-> 0]
              /\ currentFeedback' = ""
              /\ feedbackTimeout' = "null"
              /\ timeoutPending' = FALSE
              /\ UNCHANGED <<hit, canvasTime>>
         ELSE LET st == checkMissedFrom(1, songTime, SessionAtStart)
              IN  /\ isRunning' = TRUE
                  /\ ended' = FALSE
                  /\ canvasTime' = songTime
                  /\ hit' = st.hit
                  /\ gameState' = st.gameState
                  /\ judgments' = st.judgments
                  /\ IF st.feedback = "none"
                     THEN /\ currentFeedback' = ""
                          /\ feedbackTimeout' = "null"
                          /\ timeoutPending' = FALSE
                     ELSE ShowFeedback(st.feedback)
                  /\ animationFrameId' = "set"
                  /\ rafPending' = TRUE
                  /\ UNCHANGED endScreenVisible
  /\ UNCHANGED <<clockVars, histVars, chart, heldKeys>>

(***************************************************************************)
(* Initial state and specifications                                        *)
(***************************************************************************)
Note(l, t) == [lane |-> l, hitTime |-> t]

\* the charts a session is played on
Charts == { <<Note(0, 120)>>,
            <<Note(0, 120), Note(0, 180)>>,
            <<Note(0, 120), Note(1, 120)>> }

\* a chart with two runs of ten notes and one note between them
ComboChart ==
  [i \in 1..21 |-> IF i <= 10 THEN Note(0, 70 + 10 * i)
                   ELSE IF i = 11 THEN Note(0, 1000)
                   ELSE Note(0, 1960 + 10 * i)]

\* the fields of the objects KeyHeroGame constructs, before any session
LoopInit ==
  /\ hit = [i \in Notes |-> FALSE]
  /\ gameState = NewGameState
  /\ heldKeys = {}
  /\ currentScreen = "songSelect"
  /\ loadStep = "none"
  /\ gameLoop = "null"
  /\ endScreenVisible = FALSE
  /\ isRunning = FALSE
  /\ animationFrameId = "null"
  /\ rafPending = FALSE
  /\ feedbackTimeout = "null"
  /\ timeoutPending = FALSE
  /\ currentFeedback = ""
  /\ chartDuration = 0
  /\ lastComboMilestone = 0
  /\ canvasTime = -1
  /\ judgments = [i \in Notes |-> 0]
  /\ ended = FALSE
  /\ pressed = {}
  /\ comboChimes = 0

GameInit ==
  /\ chart \in Charts
  /\ LoopInit

\* ---- GameLoop's feedback text and its timeout ----
FeedbackDelay == 500

MaxWall == 1000

MaxTimers == 3

WallSteps == {100, 500}

Ratings == {"PERFECT", "GOOD", "MISS"}

TimerInit ==
  /\ timerQueue = {}
  /\ feedbackTimeoutId = 0
  /\ timersMade = 0
  /\ wallClock = 0
  /\ lastShownAt = -1

\* clearTimeout(id): the callback of that id, if still queued, is dropped
clearTimeout(queue, id) == {tm \in queue : tm.id # id}

\* what the feedback timer leaves alone
FeedbackOnly ==
  /\ UNCHANGED <<clockVars, histVars, chart, hit, gameState, heldKeys,
                 currentScreen, loadStep, gameLoop, endScreenVisible,
                 isRunning, animationFrameId, rafPending, feedbackTimeout,
                 timeoutPending, chartDuration, lastComboMilestone,
                 canvasTime, judgments, ended>>
  /\ UNCHANGED <<inputVars, scoringVars, multiVars, callVars>>

showFeedback_keepsTimer(feedback) ==
  /\ timersMade < MaxTimers
  /\ currentFeedback' = feedback
  /\ timerQueue' = timerQueue
       \cup {[id |-> timersMade + 1, due |-> wallClock + FeedbackDelay]}
  /\ feedbackTimeoutId' = timersMade + 1
  /\ timersMade' = timersMade + 1
  /\ lastShownAt' = wallClock
  /\ UNCHANGED wallClock
  /\ FeedbackOnly

\* showFeedback: set the text, clear the timeout held, start a new one
showFeedback(feedback) ==
  /\ timersMade < MaxTimers
  /\ currentFeedback' = feedback
  /\ timerQueue' =
       (IF feedbackTimeoutId # 0
        THEN clearTimeout(timerQueue, feedbackTimeoutId)
        ELSE timerQueue)
       \cup {[id |-> timersMade + 1, due |-> wallClock + FeedbackDelay]}
  /\ feedbackTimeoutId' = timersMade + 1
  /\ timersMade' = timersMade + 1
  /\ lastShownAt' = wallClock
  /\ UNCHANGED wallClock
  /\ FeedbackOnly

\* the callback of a timer that is due: this.currentFeedback = ''
TimerFires ==
  \E tm \in timerQueue :
    /\ tm.due <= wallClock
    /\ timerQueue' = timerQueue \ {tm}
    /\ currentFeedback' = ""
    /\ UNCHANGED <<feedbackTimeoutId, timersMade, wallClock, lastShownAt>>
    /\ FeedbackOnly

\* the feedback part of stop(): clear the timeout held, forget it
StopFeedback ==
  /\ timerQueue' = IF feedbackTimeoutId # 0
                   THEN clearTimeout(timerQueue, feedbackTimeoutId)
                   ELSE timerQueue
  /\ feedbackTimeoutId' = 0
  /\ UNCHANGED <<currentFeedback, timersMade, wallClock, lastShownAt>>
  /\ FeedbackOnly

\* the feedback part of reset(): empty the text, clear the timeout held
ResetFeedback ==
  /\ currentFeedback' = ""
  /\ timerQueue' = IF feedbackTimeoutId # 0
                   THEN clearTimeout(timerQueue, feedbackTimeoutId)
                   ELSE timerQueue
  /\ feedbackTimeoutId' = 0
  /\ lastShownAt' = -1
  /\ UNCHANGED <<timersMade, wallClock>>
  /\ FeedbackOnly

WallAdvance(d) ==
  /\ wallClock + d <= MaxWall
  /\ wallClock' = wallClock + d
  /\ UNCHANGED <<currentFeedback, timerQueue, feedbackTimeoutId,
                 timersMade, lastShownAt>>
  /\ FeedbackOnly

\* ---- MultiInput ----
MultiKeys == {"a", "A", "s", "x"}

TouchIds == {1, 2}

TouchLanes == {0, 1, 2}

\* key.toLowerCase()
toLowerCase(key) == IF key = "A" THEN "a" ELSE key

isTouchingLane(touches, lane) ==
  \E id \in DOMAIN touches : touches[id] = lane

isKeyPressedForLane(keys, lane) ==
  \E k \in keys : getLane(k) = lane

MultiInit ==
  /\ multiHeldKeys = {}
  /\ activeTouches = <<>>
  /\ activeLanes = {}

MultiOnKeyDown(key) ==
  LET lane == getLane(toLowerCase(key))
  IN  /\ multiHeldKeys' = multiHeldKeys \cup {toLowerCase(key)}
      /\ activeLanes' = IF lane # -1 THEN activeLanes \cup {lane}
                                     ELSE activeLanes
      /\ UNCHANGED activeTouches

MultiOnKeyUp(key) ==
  LET lane == getLane(toLowerCase(key))
      held == multiHeldKeys \ {toLowerCase(key)}
  IN  /\ multiHeldKeys' = held
      /\ activeLanes' =
           IF /\ lane # -1
              /\ ~isKeyPressedForLane(held, lane)
              /\ ~isTouchingLane(activeTouches, lane)
           THEN activeLanes \ {lane}
           ELSE activeLanes
      /\ UNCHANGED activeTouches

\* activeTouches.set(touchId, lane); activeLanes.add(lane)
onTouchStart(lane, touchId) ==
  /\ activeTouches' =
       [id \in DOMAIN activeTouches \cup {touchId} |->
          IF id = touchId THEN lane ELSE activeTouches[id]]
  /\ activeLanes' = activeLanes \cup {lane}
  /\ UNCHANGED multiHeldKeys

\* activeTouches.delete(touchId); the lane tested is the one passed in
onTouchEnd(lane, touchId) ==
  LET touches == [id \in DOMAIN activeTouches \ {touchId} |->
                    activeTouches[id]]
  IN  /\ activeTouches' = touches
      /\ activeLanes' =
           IF /\ ~isTouchingLane(touches, lane)
              /\ ~isKeyPressedForLane(multiHeldKeys, lane)
           THEN activeLanes \ {lane}
           ELSE activeLanes
      /\ UNCHANGED multiHeldKeys

clearTouches ==
  /\ activeTouches' = <<>>
  /\ activeLanes' = {getLane(k) : k \in {h \in multiHeldKeys :
                                           getLane(h) # -1}}
  /\ UNCHANGED multiHeldKeys

\* ---- RhythmScoring and GameState called on their own ----
\* hit times of the notes given to evaluateHit
NoteTimes == {0, 130}

EvalNotes ==
  {[lane |-> 0, hitTime |-> t, hit |-> h] : t \in NoteTimes, h \in BOOLEAN}

ScoringIdle ==
  /\ evalNote = [lane |-> 0, hitTime |-> 0, hit |-> FALSE]
  /\ evalTime = 0
  /\ evalResult = evaluateHit(evalNote, evalTime)
  /\ folded = <<>>

\* no call has failed and no session start was attempted
CallsIdle ==
  /\ sourceReleased = FALSE
  /\ stopThrew = FALSE
  /\ startOutcome = "none"

\* scoring.evaluateHit(note, songTime)
Evaluate(t) ==
  /\ evalTime' = t
  /\ evalResult' = evaluateHit(evalNote, t)
  /\ UNCHANGED <<evalNote, folded>>
  /\ UNCHANGED <<multiVars, timerVars>>

\* song times at which the note of JudgedNote is rated PERFECT, GOOD, MISS
FoldTimes == {130, 40, 0}

JudgedNote == [lane |-> 0, hitTime |-> 130, hit |-> FALSE]

\* gameState.processHit(scoring.evaluateHit(note, songTime))
ProcessHit(t) ==
  LET result == evaluateHit(evalNote, t)
  IN  /\ Len(folded) < MaxFolds
      /\ evalTime' = t
      /\ evalResult' = result
      /\ gameState' = processHit(gameState, result)
      /\ folded' = Append(folded, result.rating)
      /\ UNCHANGED evalNote
      /\ UNCHANGED <<multiVars, timerVars>>

GameStateReset_keepsCombo ==
  /\ gameState' = [NewGameState EXCEPT
                     !.currentCombo = gameState.currentCombo]
  /\ folded' = <<>>
  /\ UNCHANGED <<evalNote, evalTime, evalResult>>
  /\ UNCHANGED <<multiVars, timerVars>>

\* gameState.reset(): every counter and the score back to 0
GameStateReset ==
  /\ gameState' = NewGameState
  /\ folded' = <<>>
  /\ UNCHANGED <<evalNote, evalTime, evalResult>>
  /\ UNCHANGED <<multiVars, timerVars>>

\* ---- the session: KeyHeroGame driving a GameLoop on the audio clock ----

Init == ClockInit /\ GameInit /\ ScoringIdle /\ CallsIdle /\ MultiInit /\ TimerInit

Next ==
  \/ \E t0 \in {0, MaxCtxStart} :
       StartGameplay(t0) /\ UNCHANGED <<inputVars, unitVars, callVars>>
  \/ \E t0 \in {0, MaxCtxStart} :
       StartGameplayFallback(t0) /\ UNCHANGED <<inputVars, unitVars, callVars>>
  \/ StartGameplayFinish /\ UNCHANGED <<inputVars, unitVars, callVars>>
  \/ Tick /\ UNCHANGED <<inputVars, unitVars, callVars>>
  \/ \E key \in Keys : KeyDown(key) /\ UNCHANGED <<unitVars, callVars>>
  \/ \E key \in Keys : KeyUp(key) /\ UNCHANGED <<unitVars, callVars>>
  \/ \E key \in OtherKeys : HandleKeyPress(key) /\ UNCHANGED <<unitVars, callVars>>
  \/ \E key \in OtherKeys : HandleKeyUp(key) /\ UNCHANGED <<unitVars, callVars>>
  \/ FeedbackTimeoutFires /\ UNCHANGED <<inputVars, unitVars, callVars>>
  \/ ShowSongSelect /\ UNCHANGED <<inputVars, unitVars, callVars>>
  \/ LoopStop /\ UNCHANGED <<inputVars, unitVars, callVars>>
  \/ LoopReset /\ UNCHANGED <<inputVars, unitVars, callVars>>
  \/ \E d \in Steps :
       Advance(d) /\ UNCHANGED <<gameVars, inputVars, unitVars, callVars>>
  \/ TrackEnded /\ UNCHANGED <<gameVars, inputVars, unitVars, callVars>>

Spec == Init /\ [][Next]_vars

\* ---- one session on a chart long enough for the combo milestones ----
InitCombo ==
  /\ ClockInit
  /\ duration = 60000
  /\ chart = ComboChart
  /\ LoopInit
  /\ ScoringIdle
  /\ CallsIdle /\ MultiInit /\ TimerInit

NextCombo ==
  \/ \E t0 \in {0, MaxCtxStart} :
       StartGameplay(t0) /\ UNCHANGED <<inputVars, unitVars, callVars>>
  \/ StartGameplayFinish /\ UNCHANGED <<inputVars, unitVars, callVars>>
  \/ Tick /\ UNCHANGED <<inputVars, unitVars, callVars>>
  \/ KeyDown("a") /\ UNCHANGED <<unitVars, callVars>>
  \/ KeyUp("a") /\ UNCHANGED <<unitVars, callVars>>
  \/ \E d \in Steps :
       Advance(d) /\ UNCHANGED <<gameVars, inputVars, unitVars, callVars>>

SpecCombo == InitCombo /\ [][NextCombo]_vars

\* ---- evaluateHit on every note and song time ----
InitEvaluate ==
  /\ ClockInit
  /\ duration = 60000
  /\ chart = <<Note(0, 120)>>
  /\ LoopInit
  /\ evalNote \in EvalNotes
  /\ evalTime \in 0..MaxSongTime
  /\ evalResult = evaluateHit(evalNote, evalTime)
  /\ folded = <<>>
  /\ CallsIdle /\ MultiInit /\ TimerInit

NextEvaluate ==
  \E t \in 0..MaxSongTime :
    /\ Evaluate(t)
    /\ UNCHANGED <<clockVars, histVars, gameVars, inputVars, callVars>>

SpecEvaluate == InitEvaluate /\ [][NextEvaluate]_vars

\* ---- processHit on every sequence of judgments ----
InitFold ==
  /\ ClockInit
  /\ duration = 60000
  /\ chart = <<Note(0, 120)>>
  /\ LoopInit
  /\ evalNote = JudgedNote
  /\ evalTime = 0
  /\ evalResult = evaluateHit(evalNote, evalTime)
  /\ folded = <<>>
  /\ CallsIdle /\ MultiInit /\ TimerInit

\* the fields of the session that GameState does not hold
loopFields ==
  <<chart, hit, heldKeys, currentScreen, loadStep, gameLoop,
    endScreenVisible, isRunning, animationFrameId, rafPending,
    feedbackTimeout, timeoutPending, currentFeedback, chartDuration,
    lastComboMilestone, canvasTime, judgments, ended>>

NextFold ==
  \/ \E t \in FoldTimes :
       /\ ProcessHit(t)
       /\ UNCHANGED <<clockVars, histVars, inputVars, loopFields,
                    callVars>>
  \/ /\ GameStateReset
     /\ UNCHANGED <<clockVars, histVars, inputVars, loopFields,
                    callVars>>

SpecFold == InitFold /\ [][NextFold]_vars

\* ---- the audio clock alone, under every sequence of its operations ----
InitClock ==
  /\ ClockInit /\ GameInit /\ ScoringIdle /\ CallsIdle /\ MultiInit /\ TimerInit
  /\ chart = <<Note(0, 120)>>

NextClock ==
  \/ EngineStop /\ UNCHANGED <<gameVars, inputVars, unitVars, callVars>>
  \/ \E t0 \in {0, MaxCtxStart} :
       EngineStart(t0) /\ UNCHANGED <<gameVars, inputVars, unitVars, callVars>>
  \/ \E o \in Offsets :
       SetOffset(o) /\ UNCHANGED <<gameVars, inputVars, unitVars, callVars>>
  \/ Pause /\ UNCHANGED <<gameVars, inputVars, unitVars, callVars>>
  \/ ResumeCall /\ UNCHANGED <<gameVars, inputVars, unitVars, callVars>>
  \/ ResumeContinue /\ UNCHANGED <<gameVars, inputVars, unitVars, callVars>>
  \/ StaleResumeContinue /\ UNCHANGED <<gameVars, inputVars, unitVars, callVars>>
  \/ TrackEnded /\ UNCHANGED <<gameVars, inputVars, unitVars, callVars>>
  \* the clock's arithmetic is the same at every scale: the short steps
  \* suffice for it
  \/ \E d \in FineSteps :
       Advance(d) /\ UNCHANGED <<gameVars, inputVars, unitVars, callVars>>
  \/ SuspendTakesEffect /\ UNCHANGED <<gameVars, inputVars, unitVars, callVars>>
  \/ ReadSongTime /\ UNCHANGED <<gameVars, inputVars, unitVars, callVars>>

SpecClock == InitClock /\ [][NextClock]_vars

\* ---- one session left to run: no pause, no stop, ticks keep firing ----
InitLive == Init

\* the animation-frame callback, as a step of the session
LiveTick == Tick /\ UNCHANGED <<inputVars, unitVars, callVars>>

NextLive ==
  \/ \E t0 \in {0, MaxCtxStart} :
       StartGameplay(t0) /\ UNCHANGED <<inputVars, unitVars, callVars>>
  \/ \E t0 \in {0, MaxCtxStart} :
       StartGameplayFallback(t0) /\ UNCHANGED <<inputVars, unitVars, callVars>>
  \/ StartGameplayFinish /\ UNCHANGED <<inputVars, unitVars, callVars>>
  \/ LiveTick
  \/ KeyDown("a") /\ UNCHANGED <<unitVars, callVars>>
  \/ KeyUp("a") /\ UNCHANGED <<unitVars, callVars>>
  \/ FeedbackTimeoutFires /\ UNCHANGED <<inputVars, unitVars, callVars>>
  \/ \E d \in Steps :
       Advance(d) /\ UNCHANGED <<gameVars, inputVars, unitVars, callVars>>
  \/ TrackEnded /\ UNCHANGED <<gameVars, inputVars, unitVars, callVars>>

\* requestAnimationFrame runs a pending callback: a tick that is due fires
SpecLive == InitLive /\ [][NextLive]_vars /\ WF_vars(LiveTick)

\* ---- the audio clock when releasing the device can fail ----
\* the steps of stop() that release the device
ReleaseSteps == {"source", "gain", "context"}

\* stop() completes: nothing of the device is left
StopCompletes ==
  /\ EngineStop
  /\ sourceReleased' = FALSE
  /\ stopThrew' = FALSE

\* stop() when the given release step throws
EngineStopFails(step) ==
  /\ audioContext # "null"
  /\ IF step = "source"
     THEN \* sourceNode.stop() or disconnect() throws inside the first try
          /\ ~sourceReleased
          /\ StopCompletes
     ELSE IF step = "context"
     THEN \* audioContext.close() throws inside the second try
          StopCompletes
     ELSE \* gainNode.disconnect() throws: the source is stopped and
          \* dropped, the exception leaves stop() before the context is
          \* closed and before the fields are reset
          /\ sourceReleased' = TRUE
          /\ stopThrew' = TRUE
          /\ UNCHANGED <<clockVars, histVars>>

\* sourceNode.onended of a source that stop() stopped in a context left
\* open
StoppedSourceEnded ==
  /\ audioContext # "null"
  /\ sourceReleased
  /\ ~sourceEnded
  /\ sourceEnded' = TRUE
  /\ isPlaying' = (isPlaying /\ ~(isPlaying /\ ~isPaused))
  /\ UNCHANGED <<audioContext, now, duration, songStartTime,
                 calibrationOffset, isPaused, pauseStartTime,
                 totalPausedTime, resumeAwaiting, resumeStale>>
  /\ UNCHANGED <<histVars, sourceReleased, stopThrew>>

InitTeardown == InitClock

NextTeardown ==
  \/ /\ StopCompletes
     /\ UNCHANGED <<gameVars, inputVars, unitVars, startOutcome>>
  \/ \E step \in ReleaseSteps :
       /\ EngineStopFails(step)
       /\ UNCHANGED <<gameVars, inputVars, unitVars, startOutcome>>
  \/ \E t0 \in {0, MaxCtxStart} :
       /\ EngineStart(t0)
       /\ sourceReleased' = FALSE
       /\ stopThrew' = FALSE
       /\ UNCHANGED <<gameVars, inputVars, unitVars, startOutcome>>
  \/ Pause /\ UNCHANGED <<gameVars, inputVars, unitVars, callVars>>
  \/ ResumeCall /\ UNCHANGED <<gameVars, inputVars, unitVars, callVars>>
  \/ ResumeContinue
       /\ UNCHANGED <<gameVars, inputVars, unitVars, callVars>>
  \/ StaleResumeContinue
       /\ UNCHANGED <<gameVars, inputVars, unitVars, callVars>>
  \/ TrackEnded /\ UNCHANGED <<gameVars, inputVars, unitVars, callVars>>
  \/ StoppedSourceEnded /\ UNCHANGED <<gameVars, inputVars, unitVars,
                                        startOutcome>>
  \/ \E d \in Steps :
       Advance(d) /\ UNCHANGED <<gameVars, inputVars, unitVars, callVars>>

SpecTeardown == InitTeardown /\ [][NextTeardown]_vars

\* ---- starting a session when the audio clock can fail to start ----
\* where start() of the audio clock throws: at the creation of the
\* AudioContext, after stop() has run; or at sourceNode.start(), after the
\* timing fields were set
StartModes == {"context", "source"}

EngineStartFails(mode, t0) ==
  IF mode = "context"
  THEN StopCompletes
  ELSE /\ StopAwaiting
       /\ audioContext' = "running"
       /\ now' = t0
       /\ sourceEnded' = TRUE    \* a source never started never ends
       /\ songStartTime' = t0
       /\ totalPausedTime' = 0
       /\ isPaused' = FALSE
       /\ isPlaying' = TRUE
       /\ pauseStartTime' = 0
       /\ lastRead' = -1
       /\ comparable' = FALSE
       /\ sourceReleased' = FALSE
       /\ stopThrew' = FALSE
       /\ UNCHANGED <<duration, calibrationOffset, pauseReading,
                      pauseOffset>>

\* start() of the audio clock returns
EngineStarts(t0) ==
  /\ EngineStart(t0)
  /\ sourceReleased' = FALSE
  /\ stopThrew' = FALSE

\* new GameLoop(...) made by a caller other than startGameplay
NewGameLoop ==
  /\ gameLoop = "null"
  /\ NewLoopFields
  /\ UNCHANGED <<clockVars, histVars, chart, hit, gameState, heldKeys,
                 currentScreen, loadStep, endScreenVisible, isRunning,
                 animationFrameId, rafPending, feedbackTimeout,
                 timeoutPending, currentFeedback, canvasTime, judgments,
                 ended>>
  /\ UNCHANGED <<inputVars, unitVars, callVars>>

\* a caller starts a loop that is not running and that no start() is
\* waiting on
StartAllowed ==
  /\ gameLoop = "made"
  /\ ~isRunning
  /\ currentScreen = "songSelect"
  /\ startOutcome \in {"none", "rejected"}

\* GameLoop.start() up to its await, the clock starting
LoopStartCall(t0) ==
  /\ StartAllowed
  /\ EngineStarts(t0)
  /\ startOutcome' = "awaiting"
  /\ UNCHANGED <<gameVars, inputVars, unitVars>>

LoopStartFails_runsFirst(mode, t0) ==
  /\ StartAllowed
  /\ EngineStartFails(mode, t0)
  /\ startOutcome' = "rejected"
  /\ isRunning' = TRUE
  /\ UNCHANGED <<chart, hit, gameState, heldKeys, currentScreen, loadStep,
                 gameLoop, endScreenVisible, animationFrameId, rafPending,
                 feedbackTimeout, timeoutPending, currentFeedback,
                 chartDuration, lastComboMilestone, canvasTime, judgments,
                 ended>>
  /\ UNCHANGED <<inputVars, unitVars>>

\* GameLoop.start() when audioEngine.start() throws: the await rethrows,
\* start() rejects and the two statements after the await do not run
LoopStartFails(mode, t0) ==
  /\ StartAllowed
  /\ EngineStartFails(mode, t0)
  /\ startOutcome' = "rejected"
  /\ UNCHANGED <<gameVars, inputVars, unitVars>>

\* GameLoop.start() after its await: isRunning = true, then loop()
LoopStartContinue ==
  /\ startOutcome = "awaiting"
  /\ currentScreen = "songSelect"
  /\ startOutcome' = "resolved"
  /\ LET songTime == getSongTime
     IN  IF songTime > chartDuration
         THEN /\ isRunning' = FALSE
              /\ endScreenVisible' = TRUE
              /\ ended' = TRUE
              /\ rafPending' = FALSE
              /\ judgments' = [i \in Notes |-> 0]
              /\ UNCHANGED <<hit, gameState, animationFrameId,
                             feedbackTimeout, timeoutPending,
                             currentFeedback, canvasTime>>
         ELSE LET st == checkMissedFrom(
                          1, songTime,
                          [SessionPart EXCEPT
                             !.judgments = [i \in Notes |-> 0]])
              IN  /\ isRunning' = TRUE
                  /\ ended' = FALSE
                  /\ canvasTime' = songTime
                  /\ hit' = st.hit
                  /\ gameState' = st.gameState
                  /\ judgments' = st.judgments
                  /\ IF st.feedback = "none"
                     THEN UNCHANGED <<feedbackTimeout, timeoutPending,
                                      currentFeedback>>
                     ELSE ShowFeedback(st.feedback)
                  /\ animationFrameId' = "set"
                  /\ rafPending' = TRUE
                  /\ UNCHANGED endScreenVisible
  /\ UNCHANGED <<clockVars, histVars, chart, heldKeys, currentScreen,
                 loadStep, gameLoop, chartDuration, lastComboMilestone>>
  /\ UNCHANGED <<inputVars, unitVars, sourceReleased, stopThrew>>

\* the menus are up: no session is running and no start() is waiting
MenusUp == ~isRunning /\ startOutcome # "awaiting"

\* the catch at the end of startGameplay: the overlay is hidden, the alert
\* is shown, showSongSelect() brings the song list back
StartGameplayCaught ==
  /\ currentScreen' = "songSelect"
  /\ loadStep' = "none"
  /\ endScreenVisible' = FALSE
  /\ startOutcome' = "rejected"
  /\ UNCHANGED <<chart, hit, gameState, heldKeys, gameLoop, isRunning,
                 animationFrameId, rafPending, feedbackTimeout,
                 timeoutPending, currentFeedback, chartDuration,
                 lastComboMilestone, canvasTime, judgments, ended>>
  /\ UNCHANGED <<inputVars, unitVars>>

\* startGameplay: the first start() throws and so does the one of the
\* fallback
StartGameplayFails(mode, t0) ==
  /\ currentScreen = "songSelect"
  /\ MenusUp
  /\ EngineStartFails(mode, t0)
  /\ StartGameplayCaught

\* startGameplay: the first start() throws, the one of the fallback
\* returns
StartGameplayRetry(t0) ==
  /\ currentScreen = "songSelect"
  /\ MenusUp
  /\ currentScreen' = "loading"
  /\ loadStep' = "sfx"
  /\ EngineStarts(t0)
  /\ startOutcome' = "awaiting"
  /\ UNCHANGED <<chart, hit, gameState, heldKeys, gameLoop,
                 endScreenVisible, isRunning, animationFrameId, rafPending,
                 feedbackTimeout, timeoutPending, currentFeedback,
                 chartDuration, lastComboMilestone, canvasTime, judgments,
                 ended>>
  /\ UNCHANGED <<inputVars, unitVars>>

\* startGameplay: the audio file failed to load and the start() of the
\* fallback throws
StartGameplayFallbackFails(mode, t0) ==
  /\ currentScreen = "loading"
  /\ loadStep = "file"
  /\ EngineStartFails(mode, t0)
  /\ StartGameplayCaught

\* a step in which an attempt to start a session fails
StartFailure ==
  \E mode \in StartModes : \E t0 \in {0, MaxCtxStart} :
    \/ LoopStartFails(mode, t0)
    \/ StartGameplayFails(mode, t0)
    \/ StartGameplayFallbackFails(mode, t0)

InitStart == Init

NextStart ==
  \/ NewGameLoop
  \/ \E t0 \in {0, MaxCtxStart} : LoopStartCall(t0)
  \/ LoopStartContinue
  \/ StartFailure
  \/ \E t0 \in {0, MaxCtxStart} :
       /\ MenusUp
       /\ StartGameplay(t0)
       /\ sourceReleased' = FALSE
       /\ stopThrew' = FALSE
       /\ startOutcome' = "awaiting"
       /\ UNCHANGED <<inputVars, unitVars>>
  \/ \E t0 \in {0, MaxCtxStart} : StartGameplayRetry(t0)
  \/ \E t0 \in {0, MaxCtxStart} :
       /\ StartGameplayFallback(t0)
       /\ sourceReleased' = FALSE
       /\ stopThrew' = FALSE
       /\ UNCHANGED <<inputVars, unitVars, startOutcome>>
  \/ /\ StartGameplayFinish
     /\ startOutcome' = "resolved"
     /\ UNCHANGED <<inputVars, unitVars, sourceReleased, stopThrew>>
  \/ Tick /\ UNCHANGED <<inputVars, unitVars, callVars>>
  \/ KeyDown("a") /\ UNCHANGED <<unitVars, callVars>>
  \/ KeyUp("a") /\ UNCHANGED <<unitVars, callVars>>
  \/ ShowSongSelect /\ UNCHANGED <<inputVars, unitVars, callVars>>
  \/ \E d \in Steps :
       Advance(d) /\ UNCHANGED <<gameVars, inputVars, unitVars, callVars>>

SpecStart == InitStart /\ [][NextStart]_vars

\* ---- starting a session whose loop can be stopped at any time ----
InitStartStop == InitStart

NextStartStop ==
  \/ NextStart
  \/ /\ LoopStop
     /\ sourceReleased' = FALSE
     /\ stopThrew' = FALSE
     /\ UNCHANGED <<inputVars, unitVars, startOutcome>>

SpecStartStop == InitStartStop /\ [][NextStartStop]_vars

\* ---- new GameLoop(...) over any chart ----
\* getChartDuration of chart.ts
getChartDuration(c) ==
  IF Len(c) = 0 THEN 0 ELSE c[Len(c)].hitTime + TravelTime

MaxChartLen == 2

ConstructNotes == {Note(l, t) : l \in {0, 1}, t \in {0, 60, 120, 180}}

ConstructCharts == UNION {[1..n -> ConstructNotes] : n \in 0..MaxChartLen}

\* new GameLoop(..., c, ...): the constructor evaluates
\* c[c.length - 1].hitTime + 2.0; on an empty chart c[-1] is undefined and
\* reading its hitTime throws, so no loop is made and the caller gets the
\* exception
Construct(c) ==
  /\ chart' = c
  /\ hit' = [i \in 1..Len(c) |-> FALSE]
  /\ judgments' = [i \in 1..Len(c) |-> 0]
  /\ IF Len(c) = 0
     THEN /\ startOutcome' = "rejected"
          /\ UNCHANGED <<gameLoop, chartDuration, lastComboMilestone>>
     ELSE /\ startOutcome' = "resolved"
          /\ gameLoop' = "made"
          /\ chartDuration' = ChartDurationOf(c)
          /\ lastComboMilestone' = 0
  /\ UNCHANGED <<clockVars, histVars, gameState, heldKeys, currentScreen,
                 loadStep, endScreenVisible, isRunning, animationFrameId,
                 rafPending, feedbackTimeout, timeoutPending,
                 currentFeedback, canvasTime, ended>>
  /\ UNCHANGED <<inputVars, unitVars, sourceReleased, stopThrew>>

InitConstruct ==
  /\ ClockInit
  /\ duration = 60000
  /\ chart \in ConstructCharts
  /\ LoopInit
  /\ ScoringIdle
  /\ CallsIdle /\ MultiInit /\ TimerInit

NextConstruct == \E c \in ConstructCharts : Construct(c)

SpecConstruct == InitConstruct /\ [][NextConstruct]_vars

\* ---- MultiInput under every sequence of its calls ----
InitMulti ==
  /\ ClockInit
  /\ duration = 60000
  /\ chart = <<Note(0, 120)>>
  /\ LoopInit
  /\ ScoringIdle
  /\ CallsIdle /\ MultiInit /\ TimerInit

NextMulti ==
  \/ \E key \in MultiKeys :
       MultiOnKeyDown(key)
         /\ UNCHANGED <<clockVars, histVars, gameVars, inputVars,
                        scoringVars, timerVars, callVars>>
  \/ \E key \in MultiKeys :
       MultiOnKeyUp(key)
         /\ UNCHANGED <<clockVars, histVars, gameVars, inputVars,
                        scoringVars, timerVars, callVars>>
  \/ \E lane \in TouchLanes : \E touchId \in TouchIds :
       onTouchStart(lane, touchId)
         /\ UNCHANGED <<clockVars, histVars, gameVars, inputVars,
                        scoringVars, timerVars, callVars>>
  \/ \E lane \in TouchLanes : \E touchId \in TouchIds :
       onTouchEnd(lane, touchId)
         /\ UNCHANGED <<clockVars, histVars, gameVars, inputVars,
                        scoringVars, timerVars, callVars>>
  \/ clearTouches
       /\ UNCHANGED <<clockVars, histVars, gameVars, inputVars,
                      scoringVars, timerVars, callVars>>

SpecMulti == InitMulti /\ [][NextMulti]_vars

\* ---- the feedback timer under judgments, stop() and reset() ----
InitFeedback == InitMulti

NextFeedback ==
  \/ \E feedback \in Ratings : showFeedback(feedback)
  \/ TimerFires
  \/ StopFeedback
  \/ ResetFeedback
  \/ \E d \in WallSteps : WallAdvance(d)

SpecFeedback == InitFeedback /\ [][NextFeedback]_vars

\* ---- one session on a single note at 2.0 s, the clock read every 30 ms ----
ScenarioSteps == {30, 2000}

InitScenario ==
  /\ ClockInit
  /\ duration = 60000
  /\ chart = <<Note(0, 2000)>>
  /\ LoopInit
  /\ ScoringIdle
  /\ CallsIdle /\ MultiInit /\ TimerInit

NextScenario ==
  \/ \E t0 \in {0, MaxCtxStart} :
       StartGameplay(t0) /\ UNCHANGED <<inputVars, unitVars, callVars>>
  \/ StartGameplayFinish /\ UNCHANGED <<inputVars, unitVars, callVars>>
  \/ Tick /\ UNCHANGED <<inputVars, unitVars, callVars>>
  \/ KeyDown("a") /\ UNCHANGED <<unitVars, callVars>>
  \/ KeyUp("a") /\ UNCHANGED <<unitVars, callVars>>
  \/ \E d \in ScenarioSteps :
       Advance(d) /\ UNCHANGED <<gameVars, inputVars, unitVars, callVars>>

SpecScenario == InitScenario /\ [][NextScenario]_vars

(***************************************************************************)
(* Times as the program computes them.  hitTime, the song time and the     *)
(* literals 0.060 and 0.120 are binary64 numbers, and every + and - rounds *)
(* its exact result to the nearest binary64 (ties to even).  A nonnegative *)
(* binary64 value v, 2^-5 <= v < 8, is a whole number of 2^-57; it is held *)
(* as <<hi, lo>> = hi * Limb + lo so that both parts are machine integers. *)
(***************************************************************************)
Limb == 2^29

dblLess(a, b) == a[1] < b[1] \/ (a[1] = b[1] /\ a[2] < b[2])

dblLeq(a, b) == a = b \/ dblLess(a, b)

\* the exact sum, and the exact difference a - b for b <= a
rawAdd(a, b) ==
  LET lo == a[2] + b[2]
  IN  IF lo >= Limb THEN <<a[1] + b[1] + 1, lo - Limb>>
                    ELSE <<a[1] + b[1], lo>>

rawSub(a, b) ==
  IF a[2] >= b[2] THEN <<a[1] - b[1], a[2] - b[2]>>
                  ELSE <<a[1] - b[1] - 1, a[2] + Limb - b[2]>>

\* the unit in the last place of a 53-bit significand is 2^ulpBits(a) / 2^57
ulpBits(a) == Cardinality({j \in 1..7 : a[1] >= 2^(23 + j)})

\* round to nearest, ties to even: a is the exact value cut to a whole
\* number of 2^-57 and below tells what was cut off ("zero", "below" half of
\* 2^-57, "half", "above")
roundNearestEven(a, below) ==
  LET ulp  == 2^ulpBits(a)
      rem  == a[2] % ulp
      down == <<a[1], a[2] - rem>>
      odd  == (down[2] \div ulp) % 2 = 1
      up   == IF ulp = 1
              THEN below = "above" \/ (below = "half" /\ odd)
              ELSE \/ 2 * rem > ulp
                   \/ 2 * rem = ulp /\ (below # "zero" \/ odd)
  IN  IF up THEN rawAdd(down, <<0, ulp>>) ELSE down

\* the binary64 nearest to n / d (a decimal literal, or a quotient), for
\* d < 2^17: long division in base 2^14 to 57 binary places, then rounding
Digit == 2^14

DoubleOf(n, d) ==
  LET r0 == n % d
      c1 == (r0 * Digit) \div d
      r1 == (r0 * Digit) % d
      c2 == (r1 * Digit) \div d
      r2 == (r1 * Digit) % d
      c3 == (r2 * Digit) \div d
      r3 == (r2 * Digit) % d
      c4 == (r3 * Digit) \div d
      r4 == (r3 * Digit) % d
      c5 == (2 * r4) \div d
      r5 == (2 * r4) % d
      cut == <<(n \div d) * Digit * Digit + c1 * Digit + c2,
               c3 * 2 * Digit + c4 * 2 + c5>>
      below == IF r5 = 0 THEN "zero"
               ELSE IF 2 * r5 < d THEN "below"
               ELSE IF 2 * r5 = d THEN "half"
               ELSE "above"
  IN  roundNearestEven(cut, below)

\* a + b, and |a - b| (Math.abs of the rounded difference)
dblAdd(a, b) == roundNearestEven(rawAdd(a, b), "zero")

dblAbsDiff(a, b) ==
  IF dblLess(a, b) THEN roundNearestEven(rawSub(b, a), "zero")
                   ELSE roundNearestEven(rawSub(a, b), "zero")

PerfectWindow64 == DoubleOf(PerfectWindow, 1000)

GoodWindow64 == DoubleOf(GoodWindow, 1000)

HitWindow64 == DoubleOf(HitWindow, 1000)

\* evaluateHit's rating on binary64 times
evaluateHit64(hitTime, songTime) ==
  LET timeDiff == dblAbsDiff(hitTime, songTime)
  IN  IF dblLeq(timeDiff, PerfectWindow64) THEN "PERFECT"
      ELSE IF dblLeq(timeDiff, GoodWindow64) THEN "GOOD"
      ELSE "MISS"

\* findNearestNote's filter on binary64 times:
\* hitTime >= songTime - 0.120 && hitTime <= songTime + 0.120
InLaneWindow64(hitTime, songTime) ==
  /\ \/ dblLess(songTime, HitWindow64)
     \/ dblLeq(roundNearestEven(rawSub(songTime, HitWindow64), "zero"),
               hitTime)
  /\ dblLeq(hitTime, dblAdd(songTime, HitWindow64))

\* handleKeyPress on a chart of one unjudged note in the key's lane: the
\* rating it folds, "none" when findNearestNote returns null
handleKeyPress64(hitTime, songTime) ==
  IF InLaneWindow64(hitTime, songTime)
  THEN evaluateHit64(hitTime, songTime)
  ELSE "none"

\* the note times of the chart generator's first section:
\* beat * (60 / BPM), BPM = 120
ChartBeats == 4..15

hitTimeOfBeat(beat) == DoubleOf(beat, 2)

\* AudioContext.currentTime advances by whole render quanta of 128 frames
\* at the sample rate the engine asks for
SampleRates == {44100}

RenderQuantum == 128

currentTime64(quanta, rate) == DoubleOf(quanta * RenderQuantum, rate)

\* the clock readings tried for a note: those within FrameSlack quanta of the
\* note's time and of the edges of its two windows
FrameSlack == 2

MaxQuanta == 2700

PressQuanta(beat, rate) ==
  {q \in 0..MaxQuanta :
     \E e \in {0 - GoodWindow, 0 - PerfectWindow, 0, PerfectWindow,
               GoodWindow} :
       Abs(q * RenderQuantum * 1000 - (500 * beat + e) * rate)
         <= FrameSlack * RenderQuantum * 1000}

\* a key pressed when the clock of a context started at 0, never paused and
\* with no calibration offset reads the given number of quanta
PressAt(beat, rate, quanta) ==
  /\ evalNote' = [lane |-> 0, hitTime |-> hitTimeOfBeat(beat)]
  /\ evalTime' = currentTime64(quanta, rate)
  /\ evalResult' = handleKeyPress64(hitTimeOfBeat(beat),
                                    currentTime64(quanta, rate))
  /\ UNCHANGED folded
  /\ UNCHANGED <<multiVars, timerVars>>

\* ---- a key press on binary64 times ----
InitDouble ==
  /\ ClockInit
  /\ duration = 60000
  /\ chart = <<Note(0, 120)>>
  /\ LoopInit
  /\ \E beat \in ChartBeats : \E rate \in SampleRates :
       \E quanta \in PressQuanta(beat, rate) :
         /\ evalNote = [lane |-> 0, hitTime |-> hitTimeOfBeat(beat)]
         /\ evalTime = currentTime64(quanta, rate)
         /\ evalResult = handleKeyPress64(hitTimeOfBeat(beat),
                                          currentTime64(quanta, rate))
  /\ folded = <<>>
  /\ CallsIdle /\ MultiInit /\ TimerInit

NextDouble ==
  \E beat \in ChartBeats : \E rate \in SampleRates :
    \E quanta \in PressQuanta(beat, rate) :
      /\ PressAt(beat, rate, quanta)
      /\ UNCHANGED <<clockVars, histVars, gameVars, inputVars, callVars>>

SpecDouble == InitDouble /\ [][NextDouble]_vars

(***************************************************************************)
(* Properties of the session (checked under Spec)                          *)
(***************************************************************************)

\* C1: within one session every note is judged at most once: processHit is
\* called at most once for it, by the miss-scan or by a key press, and a
\* judged note has its hit flag set.
C1_JudgedAtMostOnce ==
  \A i \in Notes : judgments[i] <= 1 /\ (judgments[i] = 1 => hit[i])

\* a note judged by a key press, and a later tick that scanned past it
C1_Witness ==
  /\ Len(chart) = 1
  /\ judgments[1] = 1
  /\ gameState.missCount = 0
  /\ isRunning
  /\ canvasTime > chart[1].hitTime + MissThreshold

\* C2: when a tick ends the session, every note of the chart has its hit
\* flag set.
C2_AllJudgedAtEnd ==
  [][ (Tick /\ ~ended /\ ended') => \A i \in Notes : hit'[i] ]_vars

\* C8: the session becomes Ended only in a run of loop() that read a song
\* time greater than chartDuration; every tick of a running session that
\* reads such a time ends it; and the ending run draws nothing, judges
\* nothing and schedules no further tick.
C8_EndOnFirstLateTick ==
  [][ /\ (~ended /\ ended') =>
           /\ Tick \/ StartGameplayFinish
           /\ getSongTime > chartDuration'
           /\ canvasTime' = canvasTime
           /\ hit' = hit
           /\ judgments' = [i \in Notes |-> 0] \/ judgments' = judgments
           /\ gameState'.missCount = 0 \/ gameState' = gameState
           /\ ~rafPending'
           /\ ~isRunning'
      /\ (Tick /\ isRunning /\ getSongTime > chartDuration) =>
           /\ ended'
           /\ ~isRunning'
           /\ gameState' = gameState
      /\ (Tick /\ isRunning /\ getSongTime <= chartDuration) =>
           /\ ended' = ended
           /\ isRunning'
           /\ rafPending'
    ]_vars

\* the session ended on a tick although a note was still unjudged, after
\* at least one frame had been drawn
C8_Witness ==
  /\ ended
  /\ endScreenVisible
  /\ canvasTime >= 0
  /\ \E i \in Notes : ~hit[i]

\* C9: once the session has ended no tick is scheduled, and no tick and no
\* key press changes the stats or a hit flag.
C9_EndedIsTerminal ==
  /\ [](ended => ~isRunning /\ ~rafPending)
  /\ [][ (ended /\ (Tick \/ \E key \in Keys : KeyDown(key))) =>
           (gameState' = gameState /\ hit' = hit) ]_vars

\* the session has ended with an unjudged note inside the hit window of the
\* present song time: a key press would judge it if the session still ran
C9_Witness ==
  /\ ended
  /\ currentScreen = "playing"
  /\ heldKeys = {}
  /\ \E i \in Notes :
       ~hit[i] /\ Abs(chart[i].hitTime - getSongTime) <= HitWindow

\* C10: the step that ends the session leaves the audio clock stopped.
C10_ClockStoppedAtEnd ==
  [][ (~ended /\ ended') =>
        (~isPlaying' /\ audioContext' = "null" /\ getSongTime' = 0) ]_vars

(***************************************************************************)
(* Properties of the audio clock (checked under SpecClock)                 *)
(***************************************************************************)

C4_FrozenWhilePaused ==
  (isPlaying /\ isPaused /\ calibrationOffset = pauseOffset)
    => getSongTime = pauseReading

\* C5: the read right after the continuation of the resume() that ends a
\* pause equals the read at the instant of that pause().
C5_PauseExcluded ==
  [][ (ResumeContinue /\ isPaused /\ calibrationOffset = pauseOffset)
        => getSongTime' = pauseReading ]_vars

\* a pause taken at a positive song time has been resumed after the device
\* clock advanced during it
C5_Witness ==
  /\ isPlaying /\ ~isPaused
  /\ resumeAwaiting + resumeStale = 0
  /\ ~raceOpen
  /\ totalPausedTime > 0
  /\ pauseReading > 0
  /\ calibrationOffset = pauseOffset
  /\ getSongTime = pauseReading

\* C6: every start() leaves the clock playing, not paused, with no pause
\* accumulated, no pause instant and its origin at the device clock's
\* present reading, so the song time then reads 0 for an offset >= 0.
C6_StartIsClean ==
  [][ (\E t0 \in {0, MaxCtxStart} : EngineStart(t0)) =>
        /\ isPlaying' /\ ~isPaused'
        /\ audioContext' = "running"
        /\ totalPausedTime' = 0
        /\ pauseStartTime' = 0
        /\ songStartTime' = now'
        /\ resumeAwaiting' = 0
        /\ (calibrationOffset' >= 0 => getSongTime' = 0) ]_vars

\* a playback just started, after an earlier one that was paused at a
\* positive song time, with a positive offset in force
C6_Witness ==
  /\ isPlaying /\ ~isPaused
  /\ lastRead = -1
  /\ now = songStartTime
  /\ now > 0
  /\ totalPausedTime = 0
  /\ pauseReading > 0
  /\ calibrationOffset > 0

Stopped ==
  /\ audioContext = "null"
  /\ ~isPlaying /\ ~isPaused
  /\ songStartTime = 0
  /\ totalPausedTime = 0
  /\ pauseStartTime = 0

ZeroStats(gs) ==
  /\ gs.score = 0
  /\ gs.perfectCount = 0
  /\ gs.goodCount = 0
  /\ gs.missCount = 0
  /\ gs.currentCombo = 0
  /\ gs.maxCombo = 0

\* C11: each time startGameplay makes the session Running, on a first or a
\* later play of the chart, every note of the chart has hit = false and the
\* stats are all zero before the first run of loop() and any key press.
C11_FreshAtStart ==
  [][ StartGameplayFinish =>
        /\ \A i \in Notes : ~SessionAtStart.hit[i]
        /\ ZeroStats(SessionAtStart.gameState) ]_vars

\* C12: reset() leaves the stats zero, every hit flag false, the feedback
\* text empty with no feedback timeout pending, the milestone tracker at 0
\* and the session not running with no tick scheduled; the chart keeps its
\* notes.
C12_ResetLeavesIdle ==
  [][ LoopReset =>
        /\ ZeroStats(gameState')
        /\ \A i \in Notes : ~hit'[i]
        /\ currentFeedback' = ""
        /\ ~timeoutPending'
        /\ lastComboMilestone' = 0
        /\ ~isRunning'
        /\ ~rafPending'
        /\ chart' = chart ]_vars

\* C13: stop() leaves the loop not running, no animation-frame callback
\* and no feedback-timeout callback pending, and the audio clock stopped.
C13_StopCancelsAll ==
  [][ LoopStop =>
        /\ ~isRunning'
        /\ ~rafPending'
        /\ ~timeoutPending'
        /\ ~isPlaying'
        /\ audioContext' = "null"
        /\ getSongTime' = 0 ]_vars

\* a session stopped while it was running with a feedback on display: the
\* text is still there and its timeout is gone
C13_Witness ==
  /\ currentScreen = "playing"
  /\ gameLoop = "made"
  /\ ~isRunning
  /\ ~ended
  /\ currentFeedback # ""
  /\ ~timeoutPending
  /\ ~rafPending
  /\ audioContext = "null"

\* the unjudged notes of a lane within 120 ms of a song time
Candidates(lane, songTime) ==
  {i \in Notes : /\ chart[i].lane = lane
                 /\ ~hit[i]
                 /\ Abs(chart[i].hitTime - songTime) <= 120}

\* the number of judgments folded into the stats
FoldedCount(gs) == gs.perfectCount + gs.goodCount + gs.missCount

\* C14: a key-down delivered while the session is Running is evaluated
\* when it is a physical press (the key was up), whatever happened to the
\* key in earlier sessions: a candidate note, if there is one, is judged;
\* a key-down repeated while the key is down judges nothing.
C14_OneEvaluationPerPress ==
  [][ \A key \in Keys :
        LET note == findNearestNote(getLane(key), getSongTime)
        IN  (KeyDown(key) /\ isRunning) =>
              /\ (key \notin pressed /\ note # 0) =>
                    judgments'[note] = judgments[note] + 1
              /\ (key \in pressed) => judgments' = judgments ]_vars

\* C15: a press that passes the debounce in a lane with a candidate note
\* judges exactly one note: a candidate of that lane, nearest to the song
\* time among the candidates; one judgment is folded.
C15_NearestNoteJudged ==
  [][ \A key \in Keys :
        LET songTime == getSongTime
            cands == Candidates(getLane(key), songTime)
        IN  (KeyDown(key) /\ isRunning /\ key \notin heldKeys /\ cands # {})
            => \E i \in cands :
                 /\ \A j \in cands : Abs(chart[i].hitTime - songTime)
                                       <= Abs(chart[j].hitTime - songTime)
                 /\ hit' = [hit EXCEPT ![i] = TRUE]
                 /\ judgments' = [judgments EXCEPT ![i] = @ + 1]
                 /\ FoldedCount(gameState') = FoldedCount(gameState) + 1
    ]_vars

\* of two unjudged notes of lane 0 within the window, the later and nearer
\* one was judged by a press and the earlier one is still unjudged
C15_Witness ==
  /\ chart = <<Note(0, 120), Note(0, 180)>>
  /\ isRunning
  /\ hit[2] /\ judgments[2] = 1
  /\ ~hit[1] /\ judgments[1] = 0
  /\ gameState.perfectCount = 1

C17_MissByTimeout ==
  [][ \A i \in Notes :
        (Tick /\ isRunning /\ ~hit[i]) =>
          IF getSongTime <= chart[i].hitTime + 120
          THEN ~hit'[i] /\ judgments'[i] = judgments[i]
          ELSE /\ hit'[i]
               /\ judgments'[i] = judgments[i] + 1
               /\ gameState'.missCount = gameState.missCount
                    + Cardinality({j \in Notes :
                         ~hit[j] /\ getSongTime > chart[j].hitTime + 120})
               /\ gameState'.currentCombo = 0 ]_vars

(***************************************************************************)
(* Combo milestones (checked under SpecCombo)                              *)
(***************************************************************************)
\* C18: the combo chime is played in exactly those steps in which a key
\* hit raises currentCombo to 10, 20, 50 or 100, in a first run and in
\* every later run after the combo went back to 0.
C18_ChimeAtEachMilestone ==
  [][ IF /\ gameState'.currentCombo = gameState.currentCombo + 1
         /\ gameState'.currentCombo \in {10, 20, 50, 100}
      THEN comboChimes' = comboChimes + 1
      ELSE comboChimes' = comboChimes ]_vars

(***************************************************************************)
(* evaluateHit (checked under SpecEvaluate)                                *)
(***************************************************************************)
\* C19: evaluateHit returns timeDiff = |hitTime - songTime|, with PERFECT
\* and 100 exactly when timeDiff <= 60 ms, GOOD and 50 exactly when
\* 60 ms < timeDiff <= 120 ms, MISS and 0 exactly when timeDiff > 120 ms;
\* the result is the same for an early and a late press at the same
\* distance, and the note is not modified.
C19_EvaluateHitThresholds ==
  /\ [] ( LET d == Abs(evalNote.hitTime - evalTime)
              r == evalResult
          IN  /\ r.timeDiff = d
              /\ (r.rating = "PERFECT" /\ r.scoreDelta = 100) <=> (d <= 60)
              /\ (r.rating = "GOOD" /\ r.scoreDelta = 50)
                   <=> (60 < d /\ d <= 120)
              /\ (r.rating = "MISS" /\ r.scoreDelta = 0) <=> (d > 120)
              /\ evaluateHit(evalNote, 2 * evalNote.hitTime - evalTime) = r )
  /\ [][ evalNote' = evalNote ]_vars

\* a press exactly 120 ms late, rated GOOD
C19_Witness ==
  /\ evalNote.hitTime = 130
  /\ evalTime = 250
  /\ evalResult.rating = "GOOD"
  /\ evalResult.timeDiff = 120

(***************************************************************************)
(* processHit (checked under SpecFold)                                     *)
(***************************************************************************)
\* processHit folds one judgment: on MISS it adds 1 to missCount, sets
\* currentCombo to 0 and leaves the rest; on PERFECT or GOOD it adds 1 to
\* the matching counter and to currentCombo, raises maxCombo to
\* currentCombo if that is larger, adds scoreDelta to score and leaves
\* missCount.
FoldsOneJudgment ==
  (\E t \in FoldTimes : ProcessHit(t)) =>
    LET r == evalResult'
        g == gameState
        h == gameState'
    IN  IF r.rating = "MISS"
        THEN /\ h.missCount = g.missCount + 1
             /\ h.currentCombo = 0
             /\ h.score = g.score
             /\ h.maxCombo = g.maxCombo
             /\ h.perfectCount = g.perfectCount
             /\ h.goodCount = g.goodCount
        ELSE /\ h.perfectCount = g.perfectCount
                  + (IF r.rating = "PERFECT" THEN 1 ELSE 0)
             /\ h.goodCount = g.goodCount
                  + (IF r.rating = "GOOD" THEN 1 ELSE 0)
             /\ h.currentCombo = g.currentCombo + 1
             /\ h.maxCombo = Max(g.maxCombo, g.currentCombo + 1)
             /\ h.score = g.score + r.scoreDelta
             /\ h.missCount = g.missCount

ExampleFolded ==
  folded = <<"PERFECT", "PERFECT", "MISS", "GOOD", "PERFECT">>

\* C20 as claimed: processHit folds one judgment as specified, and the
\* judgments Perfect, Perfect, Miss, Good, Perfect give currentCombo 1,
\* maxCombo 2, score 250 and missCount 1.
C20_ProcessHitFolds ==
  /\ [][FoldsOneJudgment]_vars
  /\ [] ( ExampleFolded =>
            /\ gameState.currentCombo = 1
            /\ gameState.maxCombo = 2
            /\ gameState.score = 250
            /\ gameState.missCount = 1 )

\* C20 amended: processHit folds one judgment as specified, and the
\* judgments Perfect, Perfect, Miss, Good, Perfect give currentCombo 2,
\* maxCombo 2, score 350 and missCount 1.
C20_ProcessHitFoldsTo350 ==
  /\ [][FoldsOneJudgment]_vars
  /\ [] ( ExampleFolded =>
            /\ gameState.currentCombo = 2
            /\ gameState.maxCombo = 2
            /\ gameState.score = 350
            /\ gameState.missCount = 1 )

\* the stats after Perfect, Perfect, Miss, Good, Perfect
C20_Witness ==
  /\ ExampleFolded
  /\ gameState.perfectCount = 3
  /\ gameState.goodCount = 1
  /\ gameState.missCount = 1

\* the number of judgments at the end of seq that follow its last MISS
RECURSIVE TrailingHits(_)
TrailingHits(seq) ==
  IF seq = <<>> \/ seq[Len(seq)] = "MISS"
  THEN 0
  ELSE 1 + TrailingHits(SubSeq(seq, 1, Len(seq) - 1))

\* C21: after any sequence of processHit and reset calls,
\* 0 <= currentCombo <= maxCombo, and currentCombo is the number of
\* consecutive non-Miss judgments folded since the last Miss or reset.
C21_ComboIsTrailingRun ==
  /\ 0 <= gameState.currentCombo
  /\ gameState.currentCombo <= gameState.maxCombo
  /\ gameState.currentCombo = TrailingHits(folded)

\* a Miss between two hits: the combo counts only the hit after it
C21_Witness ==
  /\ folded = <<"PERFECT", "MISS", "GOOD">>
  /\ gameState.currentCombo = 1
  /\ gameState.maxCombo = 1
  /\ evalTime = 40

\* the number of judgments rated r in seq
RECURSIVE CountOf(_, _)
CountOf(seq, r) ==
  IF seq = <<>>
  THEN 0
  ELSE (IF seq[Len(seq)] = r THEN 1 ELSE 0)
       + CountOf(SubSeq(seq, 1, Len(seq) - 1), r)

\* C22: after any sequence of processHit and reset calls on judgments made
\* by evaluateHit, score is the sum of the scoreDeltas folded since the
\* last reset, which is 100 x perfectCount + 50 x goodCount, and a
\* processHit call never lowers score.
C22_ScoreIsSumOfDeltas ==
  /\ [] ( /\ gameState.score = 100 * CountOf(folded, "PERFECT")
                                + 50 * CountOf(folded, "GOOD")
          /\ gameState.score = 100 * gameState.perfectCount
                                + 50 * gameState.goodCount )
  /\ [][ (\E t \in FoldTimes : ProcessHit(t)) =>
            /\ gameState'.score >= gameState.score
            /\ gameState'.score = gameState.score + evalResult'.scoreDelta
        ]_vars

\* two Perfects, a Good and a Miss folded after the last reset
C22_Witness ==
  /\ gameState.score = 250
  /\ gameState.perfectCount = 2
  /\ gameState.goodCount = 1
  /\ gameState.missCount = 1
  /\ Len(folded) = 4

\* C23: getAccuracy() is 0 when nothing was judged and otherwise
\* (100 P + 50 G) / (100 (P + G + M)) x 100; getGrade() is S from 95, A from
\* 90, B from 80, C from 70, D from 60 and F below, each breakpoint
\* included; 8 Perfect + 2 Good gives 90 and A, no judgment gives F.
C23_AccuracyAndGrade ==
  LET P == gameState.perfectCount
      G == gameState.goodCount
      M == gameState.missCount
      total == P + G + M
      a == getAccuracy(gameState)
      g == getGrade(gameState)
      \* accuracy >= pct, as a comparison of whole numbers
      reaches(pct) == total > 0 /\ 100 * P + 50 * G >= pct * total
  IN  /\ total = 0 => (a.num = 0 /\ g = "F")
      /\ total > 0 => a.num * 100 * total = (100 * P + 50 * G) * 100 * a.den
      /\ a.den > 0
      /\ g = "S" <=> reaches(95)
      /\ g = "A" <=> (reaches(90) /\ ~reaches(95))
      /\ g = "B" <=> (reaches(80) /\ ~reaches(90))
      /\ g = "C" <=> (reaches(70) /\ ~reaches(80))
      /\ g = "D" <=> (reaches(60) /\ ~reaches(70))
      /\ g = "F" <=> ~reaches(60)
      /\ (P = 8 /\ G = 2 /\ M = 0) => (a.num = 90 * a.den /\ g = "A")

\* 8 Perfect and 2 Good folded: accuracy exactly 90, on the A breakpoint
C23_Witness ==
  /\ gameState.perfectCount = 8
  /\ gameState.goodCount = 2
  /\ gameState.missCount = 0
  /\ getGrade(gameState) = "A"
  /\ getAccuracy(gameState).num = 90 * getAccuracy(gameState).den

(***************************************************************************)
(* Properties of the audio clock, continued (checked under SpecClock)      *)
(***************************************************************************)

\* C24: getSongTime() returns 0 when the clock is not playing and otherwise
\* max(0, device now - origin - paused total - calibration offset); what it
\* returns is never negative, whatever the offset.
C24_SongTimeFormula ==
  /\ [] ( /\ ~isPlaying => getSongTime = 0
          /\ isPlaying =>
               getSongTime = Max(0, now - songStartTime - totalPausedTime
                                      - calibrationOffset)
          /\ getSongTime >= 0 )
  /\ [][ ReadSongTime =>
            /\ lastRead' >= 0
            /\ lastRead' = IF isPlaying
                           THEN Max(0, now - songStartTime - totalPausedTime
                                         - calibrationOffset)
                           ELSE 0 ]_vars

\* a read taken while playing with the offset ahead of the elapsed time:
\* the difference is negative and the read is 0
C24_Witness ==
  /\ isPlaying /\ ~isPaused
  /\ now - songStartTime - totalPausedTime - calibrationOffset < 0
  /\ lastRead = 0
  /\ comparable

\* C26: pause() called while the clock is not playing or is already paused,
\* and resume() called while it is not paused, change nothing: isPlaying,
\* isPaused, the origin, the paused total, the pause instant and the
\* calibration offset stay as they were, the device is not touched and no
\* continuation is left waiting.
C26_WrongStateCallsAreNoOps ==
  [][ ( \/ (~isPlaying \/ isPaused) /\ Pause
        \/ ~isPaused /\ ResumeCall )
      => /\ isPlaying' = isPlaying
         /\ isPaused' = isPaused
         /\ songStartTime' = songStartTime
         /\ totalPausedTime' = totalPausedTime
         /\ pauseStartTime' = pauseStartTime
         /\ calibrationOffset' = calibrationOffset
         /\ audioContext' = audioContext
         /\ resumeAwaiting' = resumeAwaiting ]_vars

\* a clock playing again after a pause that lasted a while, no resume()
\* still waiting: resume() is out of place here, and so is pause() in the
\* paused state this one came from
C26_Witness ==
  /\ isPlaying /\ ~isPaused
  /\ audioContext = "running"
  /\ totalPausedTime > 0
  /\ pauseStartTime > 0
  /\ resumeAwaiting = 0 /\ resumeStale = 0

\* C30: each pause interval is added to the paused total once: when
\* resume() was called again before an earlier resume() of the same pause
\* finished waiting for the device, the continuation of the extra call,
\* which runs after the earlier one has cleared isPaused, changes neither
\* the paused total nor the song time.
C30_PauseCountedOnce ==
  [][ (ResumeContinue /\ ~isPaused /\ audioContext # "null")
        => /\ totalPausedTime' = totalPausedTime
           /\ getSongTime' = getSongTime ]_vars

(***************************************************************************)
(* Properties of the session, continued (checked under Spec)               *)
(***************************************************************************)

\* C25: reading the song time changes no clock state: a tick, a key press
\* and a key release leave every clock field and the song time as they
\* were, and they take the song time from getSongTime() alone: a tick of
\* a running session ends it exactly when getSongTime() is past the chart's
\* duration and otherwise draws the frame at getSongTime(), and a key
\* press that judges a note rates it by its distance from getSongTime().
C25_SongTimeOnlyFromClock ==
  [][ /\ ( Tick \/ (\E key \in Keys : KeyDown(key) \/ KeyUp(key)) )
          => /\ UNCHANGED clockVars
             /\ getSongTime' = getSongTime
      /\ (Tick /\ isRunning)
          => IF getSongTime > chartDuration
             THEN ended' /\ ~isRunning'
             ELSE canvasTime' = getSongTime /\ isRunning'
      /\ \A key \in Keys : \A i \in Notes :
           (KeyDown(key) /\ judgments'[i] # judgments[i])
             => /\ currentFeedback'
                     = evaluateHit(chart[i], getSongTime).rating
                /\ FoldedCount(gameState') = FoldedCount(gameState) + 1
    ]_vars

\* a note of hit time 120 judged PERFECT by a key press at song time 60,
\* when the last frame was drawn at song time 0
C25_Witness ==
  /\ isRunning
  /\ chart[1].hitTime = 120
  /\ judgments[1] = 1
  /\ gameState.perfectCount = 1
  /\ currentFeedback = "PERFECT"
  /\ canvasTime = 0
  /\ getSongTime = 60

(***************************************************************************)
(* Termination of a session (checked under SpecLive)                       *)
(***************************************************************************)

\* the device clock has advanced past the end of the chart since start()
ClockPastEnd ==
  /\ audioContext # "null"
  /\ now - songStartTime - totalPausedTime - calibrationOffset
       > chartDuration

\* C29: a running session whose ticks keep firing, with no pause and no
\* stop(), ends once the device clock has advanced past the chart's
\* duration, for every chart and every duration of the audio track.
C29_RunningReachesEnded ==
  (isRunning /\ ClockPastEnd) ~> ended

(***************************************************************************)
(* Failing calls (checked under SpecTeardown and SpecStart)                *)
(***************************************************************************)

\* C28: when a release step of stop() fails (stopping or disconnecting the
\* source, disconnecting the gain node, closing the context), stop() does
\* not throw and leaves isPlaying and isPaused false and the paused total
\* and the origin at 0, with no context left to block the next start().
C28_StopSurvivesReleaseFailure ==
  [][ (\E step \in ReleaseSteps : EngineStopFails(step))
        => /\ ~stopThrew'
           /\ ~isPlaying'
           /\ ~isPaused'
           /\ totalPausedTime' = 0
           /\ songStartTime' = 0
           /\ audioContext' = "null" ]_vars

\* C27: when start() of the audio clock fails, the failure reaches the
\* caller and the session does not become running: the failing step
\* leaves isRunning false, schedules no tick, makes no judgment and shows
\* no end screen; as long as that attempt is the last one, no tick runs,
\* no judgment is made and no result is shown; and a session becomes
\* running only in the continuation of a start that succeeded.
C27_FailedStartNeverRuns ==
  [][ /\ StartFailure
          => /\ startOutcome' = "rejected"
             /\ ~isRunning' /\ ~rafPending'
             /\ ~endScreenVisible'
             /\ judgments' = judgments
             /\ gameState' = gameState
             /\ hit' = hit
             /\ ended' = ended
      /\ (startOutcome = "rejected" /\ startOutcome' = "rejected")
          => /\ ~isRunning' /\ ~rafPending'
             /\ ~endScreenVisible'
             /\ judgments' = judgments
             /\ gameState' = gameState
             /\ hit' = hit
             /\ ended' = ended
      /\ (~isRunning /\ isRunning')
          => (startOutcome = "awaiting" /\ startOutcome' = "resolved")
    ]_vars

\* start() failed at sourceNode.start(): the clock is left playing, the
\* loop is not running, and a lane key has gone down since
C27_Witness ==
  /\ startOutcome = "rejected"
  /\ gameLoop = "made"
  /\ isPlaying /\ audioContext = "running"
  /\ now > 0
  /\ pressed = {"a"}
  /\ ~isRunning
  /\ FoldedCount(gameState) = 0

(***************************************************************************)
(* Overlapping calls (checked under SpecClock and SpecStartStop)           *)
(***************************************************************************)

\* C31: a resume() still waiting for the device when stop() and then
\* start() begin a new playback does not touch that playback: its
\* continuation leaves the paused total, isPaused and the song time of the
\* new playback as they were.
C31_StaleResumeIsHarmless ==
  [][ (StaleResumeContinue /\ audioContext # "null")
        => /\ totalPausedTime' = totalPausedTime
           /\ isPaused' = isPaused
           /\ getSongTime' = getSongTime ]_vars

\* C32: when GameLoop.stop() is called after GameLoop.start() and before
\* the continuation of its await, the stop wins: the continuation, which
\* then finds the clock stopped, leaves isRunning false, runs no loop body
\* and schedules no tick.
C32_StopBeforeStartContinues ==
  [][ (LoopStartContinue /\ audioContext = "null")
        => /\ ~isRunning'
           /\ ~rafPending'
           /\ canvasTime' = canvasTime ]_vars
\* C33: every judgment handleKeyPress folds is PERFECT or GOOD, so a key
\* press never counts a miss (here for every clock reading near a note, on
\* the binary64 times the program computes with).
C33_KeyPressNeverMisses ==
  evalResult # "MISS"

(***************************************************************************)
(* The miss scan (checked under Spec)                                      *)
(***************************************************************************)
Overdue(i) == chart[i].hitTime - getSongTime < 0 - MissThreshold

\* C34: every judgment the tick's miss scan makes is a MISS worth 0: a tick
\* never raises score, perfectCount, goodCount, currentCombo or maxCombo, it
\* judges only unjudged overdue notes, each as one miss, it leaves judged
\* notes as they are and goes on, and a tick that scans leaves no overdue
\* note unjudged.
C34_ScanJudgesOnlyMisses ==
  [][ Tick =>
        /\ gameState'.score = gameState.score
        /\ gameState'.perfectCount = gameState.perfectCount
        /\ gameState'.goodCount = gameState.goodCount
        /\ gameState'.maxCombo = gameState.maxCombo
        /\ gameState'.currentCombo <= gameState.currentCombo
        /\ \A i \in Notes :
             /\ hit[i] => hit'[i] /\ judgments'[i] = judgments[i]
             /\ (~hit[i] /\ hit'[i]) =>
                  /\ Overdue(i)
                  /\ judgments'[i] = judgments[i] + 1
                  /\ evaluateHit(chart[i], getSongTime).rating = "MISS"
                  /\ evaluateHit(chart[i], getSongTime).scoreDelta = 0
        /\ gameState'.missCount = gameState.missCount
             + Cardinality({i \in Notes : ~hit[i] /\ hit'[i]})
        /\ (isRunning /\ getSongTime <= chartDuration) =>
             \A i \in Notes : Overdue(i) => hit'[i] ]_vars

\* a scan has passed over a judged note and judged the overdue one
C34_Witness ==
  /\ Len(chart) = 2
  /\ isRunning
  /\ judgments = <<1, 1>>
  /\ gameState.perfectCount + gameState.goodCount = 1
  /\ gameState.missCount = 1
  /\ gameState.currentCombo = 0

(***************************************************************************)
(* A press judged at its own clock reading (checked under SpecScenario)    *)
(***************************************************************************)
\* what a key press that reaches the hit test does with the clock reading
\* taken at the press: it judges a note of the lane within 0.120 s of that
\* reading, rated by its distance from that reading, or nothing
JudgedAtPress(key) ==
  LET t == getSongTime
      inWindow == {i \in Notes :
                     /\ chart[i].lane = getLane(key)
                     /\ ~hit[i]
                     /\ Abs(chart[i].hitTime - t) <= 120}
  IN  IF inWindow = {}
      THEN UNCHANGED <<hit, gameState, judgments>>
      ELSE \E i \in inWindow :
             /\ \A j \in inWindow :
                  Abs(chart[i].hitTime - t) <= Abs(chart[j].hitTime - t)
             /\ hit'[i] /\ judgments'[i] = judgments[i] + 1
             /\ currentFeedback' =
                  IF Abs(chart[i].hitTime - t) <= 60 THEN "PERFECT"
                                                       ELSE "GOOD"
             /\ gameState'.score = gameState.score
                  + (IF Abs(chart[i].hitTime - t) <= 60 THEN 100 ELSE 50)
             /\ gameState'.currentCombo = gameState.currentCombo + 1

PressReachesHitTest(key) ==
  /\ KeyDown(key)
  /\ Forwarded(key)
  /\ isRunning
  /\ key \notin heldKeys
  /\ getLane(key) # -1

PressOfTheExample ==
  /\ PressReachesHitTest("a")
  /\ chart = <<Note(0, 2000)>>
  /\ ~hit[1]
  /\ getSongTime = 2030

\* C35 as claimed: a press is judged against the clock reading taken at the
\* press, and the single note at 2.0 pressed at 2.03 is judged GOOD, score
\* 50, combo 1.
C35_PressAt2030IsGood ==
  [][ /\ \A key \in Keys : PressReachesHitTest(key) => JudgedAtPress(key)
      /\ PressOfTheExample
           => /\ currentFeedback' = "GOOD"
              /\ gameState'.score = 50
              /\ gameState'.currentCombo = 1 ]_vars

\* C35: a press is judged against the clock reading taken at the press,
\* whatever the last tick read: candidate and rating come from
\* |hitTime - t|, and the single note at 2.0 pressed at 2.03 (0.03 s off, at
\* most 0.060) is judged PERFECT, the score becomes 100 more and the combo 1.
C35_PressAt2030IsPerfect ==
  [][ /\ \A key \in Keys : PressReachesHitTest(key) => JudgedAtPress(key)
      /\ PressOfTheExample
           => /\ currentFeedback' = "PERFECT"
              /\ gameState'.score = gameState.score + 100
              /\ gameState'.score = 100
              /\ gameState'.currentCombo = 1 ]_vars

\* the note at 2.0 judged by a press at 2.03 whose last frame was drawn at
\* 2.0
C35_Witness ==
  /\ isRunning
  /\ chart = <<Note(0, 2000)>>
  /\ getSongTime = 2030
  /\ canvasTime = 2000
  /\ judgments = <<1>>
  /\ currentFeedback = "PERFECT"
  /\ gameState.score = 100
  /\ gameState.currentCombo = 1

(***************************************************************************)
(* Stats and hit flags of one session (checked under Spec)                 *)
(***************************************************************************)
\* no note carries a hit flag from before the session: every flag that is
\* set was set by a judgment made since the stats were last cleared
BeganCleared == \A i \in Notes : hit[i] => judgments[i] >= 1

\* C36: in a session that began with cleared stats and cleared hit flags,
\* perfectCount + goodCount + missCount is the number of notes with hit set,
\* and maxCombo <= perfectCount + goodCount <= number of notes of the chart.
C36_CountsMatchHitFlags ==
  (gameLoop = "made" /\ BeganCleared) =>
    /\ gameState.perfectCount + gameState.goodCount + gameState.missCount
         = Cardinality({i \in Notes : hit[i]})
    /\ gameState.maxCombo
         <= gameState.perfectCount + gameState.goodCount
    /\ gameState.perfectCount + gameState.goodCount <= Len(chart)

\* both notes of a chart hit by key presses in a session that began cleared
C36_Witness ==
  /\ gameLoop = "made"
  /\ BeganCleared
  /\ Len(chart) = 2
  /\ hit = <<TRUE, TRUE>>
  /\ gameState.perfectCount + gameState.goodCount = 2
  /\ gameState.maxCombo = 2

(***************************************************************************)
(* The chart duration of a new GameLoop (checked under SpecConstruct)      *)
(***************************************************************************)
\* C37: for every chart a GameLoop is constructed with, the loop is made and
\* its chartDuration is getChartDuration(chart): the last note's hitTime +
\* 2.0, and 0 for an empty chart.
C37_ChartDurationIsGetChartDuration ==
  [][ \A c \in ConstructCharts :
        Construct(c) => /\ gameLoop' = "made"
                        /\ chartDuration' = getChartDuration(c) ]_vars

(***************************************************************************)
(* The lanes MultiInput reports (checked under SpecMulti)                  *)
(***************************************************************************)
\* C38: after any sequence of onKeyDown, onKeyUp, onTouchStart, onTouchEnd
\* and clearTouches calls, activeLanes is exactly the lanes of the held
\* mapped keys together with the lanes of the active touches.
C38_ActiveLanesAreHeldLanes ==
  activeLanes =
    {getLane(k) : k \in {h \in multiHeldKeys : getLane(h) # -1}}
      \cup {activeTouches[id] : id \in DOMAIN activeTouches}

(***************************************************************************)
(* The feedback timeout (checked under SpecFeedback)                       *)
(***************************************************************************)
\* C39: at most one feedback-timeout callback is pending, it is the one
\* started by the most recent judgment, and the text of that judgment is
\* displayed until 500 ms after it: no timer of an earlier judgment is left
\* to clear it.
C39_OneTimerLatestWins ==
  /\ Cardinality(timerQueue) <= 1
  /\ \A tm \in timerQueue :
       /\ tm.id = feedbackTimeoutId
       /\ tm.due = lastShownAt + FeedbackDelay
  /\ (lastShownAt >= 0 /\ wallClock < lastShownAt + FeedbackDelay)
       => currentFeedback \in Ratings

\* a second judgment 100 ms before the first one's timer was due: that
\* moment has passed, the text is still shown and one timer is pending
C39_Witness ==
  /\ timersMade = 2
  /\ lastShownAt = 400
  /\ wallClock = 600
  /\ currentFeedback \in Ratings
  /\ Cardinality(timerQueue) = 1
====
